---- MODULE Spec2Model ----
(***************************************************************************)
(* Two-stage spur-gear design search (Gear_Transmission_Project).          *)
(*                                                                         *)
(* The model covers the material strength checker (material_check.py), the *)
(* per-candidate evaluators and the sweep drivers of gear_optimizer.py,    *)
(* kimi_proposal_single.py, kimi_proposal_speed.py and debug_main.py.      *)
(*                                                                         *)
(* Units.  Python floats are modelled by exact rationals <<num, den>> in   *)
(* lowest terms; <<1, 0>> is float('inf').  Modules are whole millimetres. *)
(* density is in 1e-8 kg/mm^3, sf_min_ratio in 1/100, safety_factor in     *)
(* 1/10, sf_factor in 1/10000, and a gear mass is kept in units of         *)
(* (pi/8) * 1e-5 g, so that  weight = density * sum(d^2 * width).          *)
(***************************************************************************)
EXTENDS Integers, Sequences, FiniteSets, TLC

VARIABLES prog, cfg, hashseed, pc, completed, best, best_metric, valid_count,
          fail_counts, last, pending

vars == <<prog, cfg, hashseed, pc, completed, best, best_metric, valid_count,
          fail_counts, last, pending>>

(***************************************************************************)
(* Float arithmetic as exact rationals                                     *)
(***************************************************************************)
RECURSIVE GCD(_, _)
GCD(a, b) == IF b = 0 THEN a ELSE GCD(b, a % b)

FInf == <<1, 0>>

FZero == <<0, 1>>

FOne == <<1, 1>>

Frac(n, d) ==
    IF d = 0 THEN FInf
    ELSE IF n = 0 THEN FZero
    ELSE LET g == GCD(n, d) IN <<n \div g, d \div g>>

IsInf(x) == x[2] = 0

\* x * y, cancelling across the two factors before multiplying
FMul(x, y) ==
    IF IsInf(x) \/ IsInf(y) THEN FInf
    ELSE IF x[1] = 0 \/ y[1] = 0 THEN FZero
    ELSE LET g1 == GCD(x[1], y[2])
             g2 == GCD(y[1], x[2])
         IN  <<(x[1] \div g1) * (y[1] \div g2), (x[2] \div g2) * (y[2] \div g1)>>

\* x / y for y > 0 (every division of the source is guarded or has y > 0)
FDiv(x, y) ==
    IF IsInf(y) THEN FZero
    ELSE IF IsInf(x) THEN FInf
    ELSE FMul(x, <<y[2], y[1]>>)

\* a/b <= c/d for a, c >= 0 and b, d > 0, by the continued-fraction expansion
RECURSIVE FracLE(_, _, _, _)
FracLE(a, b, c, d) ==
    LET qa == a \div b
        qc == c \div d
        ra == a % b
        rc == c % d
    IN  IF qa # qc THEN qa < qc
        ELSE IF ra = 0 THEN TRUE
        ELSE IF rc = 0 THEN FALSE
        ELSE FracLE(d, rc, b, ra)

FLE(x, y) ==
    IF IsInf(y) THEN TRUE
    ELSE IF IsInf(x) THEN FALSE
    ELSE FracLE(x[1], x[2], y[1], y[2])

FLT(x, y) == ~FLE(y, x)

\* Python's max(...) over a non-empty sequence: the first greatest element wins
RECURSIVE ArgMaxFrom(_, _, _)
ArgMaxFrom(s, i, b) ==
    IF i > Len(s) THEN b
    ELSE ArgMaxFrom(s, i + 1, IF FLT(s[b], s[i]) THEN i ELSE b)

ArgMax(s) == ArgMaxFrom(s, 2, 1)

FMax(s) == s[ArgMax(s)]

\* Python's round(n / d) for d > 0: round half to even
Round(n, d) ==
    LET Nearest(q, r, p) ==
            IF 2 * r < p THEN q
            ELSE IF 2 * r > p THEN q + 1
            ELSE IF q % 2 = 0 THEN q ELSE q + 1
    IN  IF d > 0 THEN Nearest(n \div d, n % d, d)
        ELSE 0 - Nearest(n \div (0 - d), n % (0 - d), 0 - d)

\* Python's list(range(lo, hi + 1, step))
RangeList(lo, hi, step) ==
    IF hi < lo THEN <<>>
    ELSE [i \in 1..((hi - lo) \div step + 1) |-> lo + (i - 1) * step]

(***************************************************************************)
(* Outcomes of a call: a returned value or a raised exception              *)
(***************************************************************************)
Ok(v) == [tag |-> "ok", val |-> v]

Raise(e) == [tag |-> "raise", exc |-> e]

None == [kind |-> "none"]

IsOk(o) == o.tag = "ok"

(***************************************************************************)
(* Material catalogs                                                       *)
(***************************************************************************)
Material(key, name, density, sigma_f, sf_min_ratio, safety_factor) ==
    [key |-> key, name |-> name, density |-> density, sigma_f |-> sigma_f,
     sf_min_ratio |-> sf_min_ratio, safety_factor |-> safety_factor]

\* material_check.MaterialDatabase.DEFAULT_MATERIALS, in dict order
DEFAULT_MATERIALS ==
    << Material("steel", "20CrMnTi", 785, 600, 30, 20),
       Material("peek", "PEEK", 132, 90, 70, 20),
       Material("pom", "POM", 141, 65, 50, 25),
       Material("nylon", "PA66", 115, 70, 50, 25),
       Material("peek_cf30", "PEEK-CF30", 140, 180, 55, 22) >>

\* MATERIAL_DB of kimi_proposal_speed / kimi_proposal_single / debug_main
MATERIAL_DB ==
    << Material("steel", "20CrMnTi", 785, 600, 30, 20),
       Material("peek", "PEEK", 132, 90, 80, 25),
       Material("pom", "POM", 141, 65, 100, 30),
       Material("nylon", "PA66", 115, 70, 90, 28) >>

DbKeys(db) == {db[i].key : i \in 1..Len(db)}

DbIndex(db, key) == CHOOSE i \in 1..Len(db) : db[i].key = key

\* db[key]: KeyError when the key is absent
DbItem(db, key) ==
    IF key \in DbKeys(db) THEN Ok(db[DbIndex(db, key)]) ELSE Raise("KeyError")

(***************************************************************************)
(* material_check.StrengthChecker                                          *)
(***************************************************************************)
\* A 4-gear geometry with its two stage input torques, as passed to the
\* checker: m1, m2, z1..z4, width1, width2, torque1, torque2.
Geometry(m1, m2, z1, z2, z3, z4, width1, width2, torque1, torque2) ==
    [m |-> <<m1, m1, m2, m2>>, z |-> <<z1, z2, z3, z4>>,
     width |-> <<width1, width1, width2, width2>>,
     torque1 |-> torque1, torque2 |-> torque2]

\* The torque each gear transmits: T1, T1*z2/z1, T2, T2*z4/z3
GearTorque(g, i) ==
    CASE i = 1 -> g.torque1
      [] i = 2 -> FMul(g.torque1, Frac(g.z[2], g.z[1]))
      [] i = 3 -> g.torque2
      [] i = 4 -> FMul(g.torque2, Frac(g.z[4], g.z[3]))

\* The factor without its dedendum term: pi/2*cos(alpha), in 1/10000
SfFactorWithoutDedendum(pressure_angle) ==
    CASE pressure_angle = 15 -> 15173
      [] pressure_angle = 20 -> 14761
      [] pressure_angle = 25 -> 14236

\* StrengthChecker.sf_factor = pi/2*cos(alpha) - 2*1.25*tan(alpha), in 1/10000
sf_factor(pressure_angle) ==
    CASE pressure_angle = 15 -> 8474
      [] pressure_angle = 20 -> 5661
      [] pressure_angle = 25 -> 2579

\* The stress without the contact-ratio factor Y_eps
LewisStressWithoutContactRatio(m, z, width, torque) ==
    FMul(torque, Frac(2 * 1000 * (21 * z + 35), 10 * z * width * m * m * z))

\* sigma_F = 2*(1000*T)*Y_F*Y_S*Y_eps / (width*m^2*z), Y_F = 2.1 + 3.5/z,
\* Y_S = 1.0, Y_eps = 0.7
LewisStress(m, z, width, torque) ==
    FMul(torque, Frac(2 * 1000 * 7 * (21 * z + 35), 10 * 10 * z * width * m * m * z))

FormFactor(z) == Frac(21 * z + 35, 10 * z)

\* StrengthChecker.calculate_bending_stress with tip_relief = 0, helix_angle = 0:
\* returns the 4-tuple (sigma_F, Y_F, K_v, K_beta)
mc_calculate_bending_stress(m, z, width, torque) ==
    IF z < 12 \/ width <= 0 \/ m <= 0
    THEN <<FInf, FZero, FOne, FOne>>
    ELSE <<LewisStress(m, z, width, torque), FormFactor(z), FOne, FOne>>

\* calculate_bending_stress of the kimi_proposal_* and debug_* scripts:
\* returns the pair (sigma_F, Y_F)
calculate_bending_stress(m, z, width, torque) ==
    IF z < 12 \/ width <= 0 \/ m <= 0
    THEN <<FInf, FZero>>
    ELSE <<LewisStress(m, z, width, torque), FormFactor(z)>>

\* sigma_F_allow = sigma_f / safety_factor
AllowStress(material) == Frac(material.sigma_f * 10, material.safety_factor)

\* (m * sf_factor) / m >= material.sf_min_ratio, for m # 0.  The float
\* quotient is within two units in the last place of sf_factor, and the
\* thresholds of the catalogs are two-decimal numbers more than 1e-4 away
\* from sf_factor, so the exact comparison gives the answer of the floats
SfOk(material, m, pressure_angle) ==
    LET Ratio(a) == Frac(a * sf_factor(pressure_angle), a * 10000)
    IN  FLE(Frac(material.sf_min_ratio, 100), Ratio(IF m < 0 THEN 0 - m ELSE m))

(***************************************************************************)
(* Binary floating point (Python float): 53-bit significands, round to     *)
(* nearest, ties to even.  A positive float is <<significand, exponent>>,  *)
(* the significand a natural number of exactly 53 bits kept as a sequence  *)
(* of 14-bit limbs, least significant first.                               *)
(***************************************************************************)
RECURSIVE BTrim(_)
BTrim(x) == IF x # <<>> /\ x[Len(x)] = 0 THEN BTrim(SubSeq(x, 1, Len(x) - 1)) ELSE x

BIsZero(x) == \A i \in 1..Len(x) : x[i] = 0

\* x * k + c for a limb-sized k
RECURSIVE BMulSmall(_, _, _)
BMulSmall(x, k, c) ==
    IF x = <<>>
    THEN IF c = 0 THEN <<>> ELSE <<c % 16384>> \o BMulSmall(<<>>, k, c \div 16384)
    ELSE <<(Head(x) * k + c) % 16384>>
            \o BMulSmall(Tail(x), k, (Head(x) * k + c) \div 16384)

RECURSIVE BAdd(_, _, _)
BAdd(x, y, c) ==
    IF x = <<>> /\ y = <<>> THEN (IF c = 0 THEN <<>> ELSE <<c>>)
    ELSE IF x = <<>> THEN BAdd(<<0>>, y, c)
    ELSE IF y = <<>> THEN BAdd(x, <<0>>, c)
    ELSE <<(Head(x) + Head(y) + c) % 16384>>
            \o BAdd(Tail(x), Tail(y), (Head(x) + Head(y) + c) \div 16384)

RECURSIVE BMul(_, _)
BMul(x, y) ==
    IF y = <<>> THEN <<>>
    ELSE BAdd(BMulSmall(x, Head(y), 0), <<0>> \o BMul(x, Tail(y)), 0)

\* <<x div d, x mod d>> for a limb-sized d
RECURSIVE BDivSmall(_, _)
BDivSmall(x, d) ==
    IF x = <<>> THEN << <<>>, 0 >>
    ELSE LET Step(hi) ==
                 << <<(hi[2] * 16384 + Head(x)) \div d>> \o hi[1],
                    (hi[2] * 16384 + Head(x)) % d >>
         IN  Step(BDivSmall(Tail(x), d))

\* x * 2^n
BShl(x, n) == [i \in 1..(n \div 14) |-> 0] \o BMulSmall(x, 2 ^ (n % 14), 0)

RECURSIVE SmallBits(_)
SmallBits(n) == IF n = 0 THEN 0 ELSE 1 + SmallBits(n \div 2)

\* The number of bits of x
BitLen(x) ==
    LET Bits(t) == IF t = <<>> THEN 0 ELSE 14 * (Len(t) - 1) + SmallBits(t[Len(t)])
    IN  Bits(BTrim(x))

BLess(x, y) ==
    LET Less(xt, yt) ==
            IF Len(xt) # Len(yt) THEN Len(xt) < Len(yt)
            ELSE \E i \in 1..Len(xt) :
                    /\ xt[i] < yt[i]
                    /\ \A j \in (i + 1)..Len(xt) : xt[j] = yt[j]
    IN  Less(BTrim(x), BTrim(y))

\* x / 2^s rounded to the nearest integer, ties to even (s >= 1)
BShrRound(x, s) ==
    LET Rounded(q, r, half, low_zero) ==
            IF r > half \/ (r = half /\ ~low_zero) \/ (r = half /\ low_zero /\ q[1] % 2 = 1)
            THEN BAdd(q, <<1>>, 0) ELSE q
        Split(drop, bits) ==
            LET Divided(qr) ==
                    Rounded(qr[1] \o <<0>>, qr[2], 2 ^ (bits - 1),
                            BIsZero(SubSeq(x, 1, drop)))
            IN  Divided(BDivSmall(SubSeq(x, drop + 1, Len(x)), 2 ^ bits))
    IN  Split((s - 1) \div 14, s - 14 * ((s - 1) \div 14))

\* The float nearest to n * 2^e, for a natural number n > 0
Fl(n, e) ==
    LET Carry(m, s) ==
            IF BitLen(m) = 54 THEN <<BTrim(BDivSmall(m, 2)[1]), e + s + 1>>
            ELSE <<BTrim(m), e + s>>
        Sized(bl) ==
            IF bl > 53 THEN Carry(BShrRound(n, bl - 53), bl - 53)
            ELSE <<BTrim(BShl(n, 53 - bl)), e - (53 - bl)>>
    IN  Sized(BitLen(n))

\* float(k) for a natural number 0 < k < 16384
FlInt(k) == Fl(<<k>>, 0)

\* float(a) / float(b), which is the float nearest to a / b, for natural
\* numbers 0 < a, b < 16384
FlDiv(a, b) ==
    LET Quotient(qr) == Fl(BMulSmall(qr[1], 2, IF qr[2] = 0 THEN 0 ELSE 1), 0 - 71)
    IN  Quotient(BDivSmall(BShl(<<a>>, 70), b))

\* x * y
FlMul(x, y) == Fl(BMul(x[1], y[1]), x[2] + y[2])

\* x > k and x < k for a float x and a natural number k > 0
FlGtInt(x, k) ==
    IF x[2] <= 0 THEN BLess(BShl(<<k>>, 0 - x[2]), x[1])
    ELSE BLess(<<k>>, BShl(x[1], x[2]))

FlLtInt(x, k) ==
    IF x[2] <= 0 THEN BLess(x[1], BShl(<<k>>, 0 - x[2]))
    ELSE BLess(BShl(x[1], x[2]), <<k>>)

\* i1 * i2, with i1 = z2 / z1 and i2 = z4 / z3, as the evaluators compute it
FlRatio(z) == FlMul(FlDiv(z[2], z[1]), FlDiv(z[4], z[3]))

\* output_speed * ratio > max_motor_speed.  Away from the bound the three
\* roundings move the product by less than 2^-50 of its value, the bound is at
\* least 1 / (z1 * z3) away, and the comparison is that of the exact values;
\* on the bound the roundings decide.
MotorSpeedAbove(output_speed, z, max_motor_speed) ==
    IF output_speed * z[2] * z[4] = max_motor_speed * z[1] * z[3]
    THEN FlGtInt(FlMul(FlInt(output_speed), FlRatio(z)), max_motor_speed)
    ELSE output_speed * z[2] * z[4] > max_motor_speed * z[1] * z[3]

\* motor_torque * ratio * 0.9025 < output_torque, likewise
TorqueBelow(motor_torque, z, output_torque) ==
    IF motor_torque[1] * z[2] * z[4] * 9025
           = output_torque * motor_torque[2] * z[1] * z[3] * 10000
    THEN FlLtInt(FlMul(FlMul(FlDiv(motor_torque[1], motor_torque[2]), FlRatio(z)),
                       FlDiv(9025, 10000)),
                 output_torque)
    ELSE motor_torque[1] * z[2] * z[4] * 9025
             < output_torque * motor_torque[2] * z[1] * z[3] * 10000

\* motor_torque * Total_Ratio * 0.95 * 0.95 < output_torque, likewise
TorqueBelowTwoStage(motor_torque, z, output_torque) ==
    IF motor_torque[1] * z[2] * z[4] * 9025
           = output_torque * motor_torque[2] * z[1] * z[3] * 10000
    THEN FlLtInt(FlMul(FlMul(FlMul(FlDiv(motor_torque[1], motor_torque[2]), FlRatio(z)),
                             FlDiv(95, 100)),
                       FlDiv(95, 100)),
                 output_torque)
    ELSE motor_torque[1] * z[2] * z[4] * 9025
             < output_torque * motor_torque[2] * z[1] * z[3] * 10000

\* The four root stresses of a geometry as StrengthChecker computes them
mc_stresses(g) ==
    [i \in 1..4 |-> mc_calculate_bending_stress(g.m[i], g.z[i], g.width[i], GearTorque(g, i))]

\* MaterialCheckResult(...) as check_material builds it from the greatest of
\* the four stresses
MaterialCheckResult(material, stress_details, max_sigma_F, sigma_F_allow, sf_ratio_ok) ==
    [material_key |-> "",
     name |-> <<material.name>>,
     max_stress |-> max_sigma_F,
     allow_stress |-> sigma_F_allow,
     strength_ok |-> FLE(max_sigma_F, sigma_F_allow),
     sf_ratio_ok |-> sf_ratio_ok,
     suitable |-> FLE(max_sigma_F, sigma_F_allow) /\ sf_ratio_ok,
     safety_margin |-> IF FLT(FZero, max_sigma_F)
                       THEN FDiv(sigma_F_allow, max_sigma_F) ELSE FInf,
     density |-> <<material.density, 1>>,
     stress_details |-> stress_details,
     gear_materials |-> <<>>,
     gear_material_names |-> <<>>,
     stress_ratios |-> <<>>,
     max_stress_ratio_gear |-> 0]

\* StrengthChecker.check_material.  "sigma_F1, _ = ..." unpacks the returned
\* tuple into two names, which raises ValueError unless it has two elements.
check_material(pressure_angle, material, g) ==
    LET Unpacked(r) ==
            IF \E i \in 1..4 : Len(r[i]) # 2 THEN Raise("ValueError")
            ELSE Ok(MaterialCheckResult(
                        material,
                        [i \in 1..4 |-> r[i][1]],
                        FMax([i \in 1..4 |-> r[i][1]]),
                        AllowStress(material),
                        SfOk(material, g.m[1], pressure_angle)
                            /\ SfOk(material, g.m[3], pressure_angle)))
    IN  Unpacked(mc_stresses(g))

\* list.sort(key=density): a stable insertion of x into the sorted list s
RECURSIVE InsertByDensity(_, _)
InsertByDensity(s, x) ==
    IF s = <<>> THEN <<x>>
    ELSE IF FLT(x.density, Head(s).density) THEN <<x>> \o s
    ELSE <<Head(s)>> \o InsertByDensity(Tail(s), x)

RECURSIVE SortByDensity(_)
SortByDensity(s) ==
    IF s = <<>> THEN <<>>
    ELSE InsertByDensity(SortByDensity(SubSeq(s, 1, Len(s) - 1)), s[Len(s)])

HasKey(results, key) == \E i \in 1..Len(results) : results[i].material_key = key

\* results[key] of a results dict kept as the sequence of its values in
\* insertion order: KeyError when no entry has that key
ResultsItem(results, key) ==
    IF HasKey(results, key)
    THEN Ok(results[CHOOSE i \in 1..Len(results) : results[i].material_key = key])
    ELSE Raise("KeyError")

\* "suitable_materials.sort(key=density); selected = suitable_materials[0]
\* else 'steel'" over the results in dict order
PickLightest(results) ==
    LET Pick(suitable_materials) ==
            IF suitable_materials # <<>>
            THEN SortByDensity(suitable_materials)[1].material_key
            ELSE "steel"
    IN  Pick(SelectSeq(results, LAMBDA x : x.suitable))

\* StrengthChecker.select_best_material: returns (selected_key, results)
select_best_material(pressure_angle, db, g, mode) ==
    LET Select(results) ==
            IF mode # "auto" THEN Ok(<<mode, results>>)
            ELSE Ok(<<PickLightest(results), results>>)
        Collect(rs) ==
            IF \E i \in 1..Len(db) : ~IsOk(rs[i])
            THEN Raise(rs[CHOOSE i \in 1..Len(db) : ~IsOk(rs[i])].exc)
            ELSE Select([i \in 1..Len(db) |-> [rs[i].val EXCEPT !.material_key = db[i].key]])
    IN  Collect([i \in 1..Len(db) |-> check_material(pressure_angle, db[i], g)])

\* list(set(names)): the iteration order of a set of strings is fixed within
\* one interpreter run and differs between runs (string hash randomisation);
\* seed picks it.  first[n] is the first gear that carries the name n.
RECURSIVE SetToList(_, _, _)
SetToList(S, first, seed) ==
    IF S = {} THEN <<>>
    ELSE LET Put(x) == <<x>> \o SetToList(S \ {x}, first, seed)
         IN  Put(IF seed = 0
                 THEN CHOOSE y \in S : \A w \in S : first[y] <= first[w]
                 ELSE CHOOSE y \in S : \A w \in S : first[y] >= first[w])

\* "if stress_ratio > max_stress_ratio" over the gears in order, from (0, "")
RECURSIVE TrackMaxRatio(_, _, _)
TrackMaxRatio(ratios, i, acc) ==
    IF i > Len(ratios) THEN acc
    ELSE TrackMaxRatio(ratios, i + 1,
                       IF FLT(acc[1], ratios[i]) THEN <<ratios[i], i>> ELSE acc)

RECURSIVE SumSeq(_)
SumSeq(s) == IF s = <<>> THEN 0 ELSE Head(s) + SumSeq(Tail(s))

\* A check that judges every gear against the material of gear z1
AllJudgedAgainstFirst(pressure_angle, g, material, stress_details) ==
    \A i \in 1..4 : /\ FLE(stress_details[i], AllowStress(material[1]))
                    /\ SfOk(material[1], g.m[i], pressure_angle)

\* all_suitable at the end of the loop over the gears: every gear has
\* "strength_ok and sf_ok" against its own material
AllSuitable(pressure_angle, g, material, stress_details) ==
    \A i \in 1..4 : /\ FLE(stress_details[i], AllowStress(material[i]))
                    /\ SfOk(material[i], g.m[i], pressure_angle)

\* A margin that is the greatest stress ratio itself, not its inverse
MarginNotInverted(max_stress_ratio) == max_stress_ratio

\* safety_margin = 1.0 / max_stress_ratio if max_stress_ratio > 0 else inf
SafetyMargin(max_stress_ratio) ==
    IF FLT(FZero, max_stress_ratio) THEN FDiv(FOne, max_stress_ratio) ELSE FInf

\* The MaterialCheckResult of check_mixed_materials, from the per-gear
\* materials, stresses and stress ratios; tracked = (max ratio, its gear)
MixedCheckResult(pressure_angle, g, seed, gear_materials, material, stress_details, stress_ratios, tracked, ref_material) ==
    LET Result(all_suitable) ==
            LET volume(i) == g.z[i] * g.width[i] * g.m[i] * g.m[i]
                first == [n \in {material[i].name : i \in 1..4} |->
                             CHOOSE i \in 1..4 :
                                /\ material[i].name = n
                                /\ \A j \in 1..(i - 1) : material[j].name # n]
            IN  [material_key |-> "mixed",
                 name |-> SetToList({material[i].name : i \in 1..4}, first, seed),
                 max_stress |-> FMax(stress_details),
                 allow_stress |-> AllowStress(ref_material),
                 strength_ok |-> all_suitable,
                 sf_ratio_ok |-> all_suitable,
                 suitable |-> all_suitable,
                 safety_margin |-> SafetyMargin(tracked[1]),
                 density |-> Frac(SumSeq([i \in 1..4 |-> material[i].density * volume(i)]),
                                  SumSeq([i \in 1..4 |-> volume(i)])),
                 stress_details |-> stress_details,
                 gear_materials |-> gear_materials,
                 gear_material_names |-> [i \in 1..4 |-> material[i].name],
                 stress_ratios |-> stress_ratios,
                 max_stress_ratio_gear |-> tracked[2]]
    IN  Result(AllSuitable(pressure_angle, g, material, stress_details))

\* StrengthChecker.check_mixed_materials (tip_relief = 0, helix_angle = 0).
\* material_config maps gear numbers (a subset of 1..4) to material keys.
check_mixed_materials(pressure_angle, db, g, material_config, seed) ==
    LET mat_key(i) == IF i \in DOMAIN material_config THEN material_config[i] ELSE "steel"
        Ratios(mats, stress_details) ==
            [i \in 1..4 |-> IF FLT(FZero, AllowStress(mats[i]))
                            THEN FDiv(stress_details[i], AllowStress(mats[i])) ELSE FInf]
        Finish(mats, stress_details, stress_ratios, max_stress_gear) ==
            IF mat_key(max_stress_gear) \notin DbKeys(db) THEN Raise("KeyError")
            ELSE Ok(MixedCheckResult(pressure_angle, g, seed, [i \in 1..4 |-> mat_key(i)],
                                     mats, stress_details, stress_ratios,
                                     TrackMaxRatio(stress_ratios, 1, <<FZero, 0>>),
                                     db[DbIndex(db, mat_key(max_stress_gear))]))
        Stressed(mats, stress_details) ==
            Finish(mats, stress_details, Ratios(mats, stress_details), ArgMax(stress_details))
    IN  IF \E i \in 1..4 : mat_key(i) \notin DbKeys(db) /\ "steel" \notin DbKeys(db)
        THEN Raise("KeyError")
        ELSE Stressed([i \in 1..4 |-> db[DbIndex(db, IF mat_key(i) \in DbKeys(db)
                                                     THEN mat_key(i) ELSE "steel")]],
                      [i \in 1..4 |-> mc_stresses(g)[i][1]])

(***************************************************************************)
(* Enumeration of a Cartesian product in nested-loop order                 *)
(***************************************************************************)
RECURSIVE ProductLen(_)
ProductLen(lists) ==
    IF lists = <<>> THEN 1 ELSE Len(Head(lists)) * ProductLen(Tail(lists))

\* The k-th tuple (k from 0) of the nested loops over lists[1] (outermost)
\* .. lists[Len(lists)] (innermost)
NthTuple(lists, k) ==
    [j \in 1..Len(lists) |->
        lists[j][((k \div ProductLen(SubSeq(lists, j + 1, Len(lists)))) % Len(lists[j])) + 1]]

(***************************************************************************)
(* gear_optimizer.GearOptimizer                                            *)
(***************************************************************************)
Min4(z) == CHOOSE x \in {z[i] : i \in 1..4} : \A i \in 1..4 : x <= z[i]

Max2(a, b) == IF a >= b THEN a ELSE b

\* sum over the four gears of d^2 * width: 8/pi times the solid volume
Volume8(d, width1, width2) ==
    d[1] * d[1] * width1 + d[2] * d[2] * width1 + d[3] * d[3] * width2 + d[4] * d[4] * width2

\* A tooth count that drops the fraction of D / m
TruncatedToothCount(D, m) == IF m > 0 THEN D \div m ELSE 0 - (D \div (0 - m))

\* "z = round(D / m)": the tooth count of a gear of nominal diameter D
ToothCount(D, m) == Round(D, m)

\* The teeth check with its comparison turned round
AboveTeethFloor(z, min_teeth) == Min4(z) > min_teeth

\* "if min(z1, z2, z3, z4) < cfg.min_teeth"
BelowTeethFloor(z, min_teeth) == Min4(z) < min_teeth

\* GearOptimizer.evaluate(m1, m2, d1_in, d2_in, d3_in, d4_in, wf1, wf2) with
\* self.material_db = MaterialDatabase() and
\* self.strength_checker = StrengthChecker(config.pressure_angle)
evaluate(c, seed, m1, m2, d1_in, d2_in, d3_in, d4_in, wf1, wf2) ==
    LET db == DEFAULT_MATERIALS
        width1 == wf1 * m1
        width2 == wf2 * m2
        unique_materials == {c.material[i] : i \in 1..4}
        mixed == Cardinality(unique_materials) > 1
        Built(z, d, ratio, actual_torque, result) ==
            LET gear_density(i) ==
                    IF result.gear_materials[i] \in DbKeys(db)
                    THEN db[DbIndex(db, result.gear_materials[i])].density
                    ELSE db[DbIndex(db, "steel")].density
            IN  IF ~result.suitable THEN Ok(None)
                ELSE Ok([kind |-> "design",
                         m1 |-> m1, m2 |-> m2, z |-> z, d |-> d,
                         ratio |-> ratio,
                         material |-> IF mixed THEN "mixed"
                                      ELSE CHOOSE k \in unique_materials : TRUE,
                         material_name |-> result.name,
                         max_stress |-> result.max_stress,
                         allow_stress |-> result.allow_stress,
                         weight_g |->
                             IF result.gear_materials # <<>>
                             THEN <<gear_density(1) * d[1] * d[1] * width1
                                    + gear_density(2) * d[2] * d[2] * width1
                                    + gear_density(3) * d[3] * d[3] * width2
                                    + gear_density(4) * d[4] * d[4] * width2, 1>>
                             ELSE FMul(<<Volume8(d, width1, width2), 1>>, result.density),
                         total_size |-> Frac(c.motor_diameter + d[1] + d[2] + d[3] + d[4], 2),
                         output_torque |-> actual_torque,
                         width_factor1 |-> wf1, width_factor2 |-> wf2,
                         stress_details |-> result.stress_details,
                         max_stress_gear |-> ArgMax(result.stress_details),
                         gear_materials |-> result.gear_materials,
                         gear_material_names |-> result.gear_material_names])
        Checked(z, d, ratio, actual_torque, checked) ==
            IF ~IsOk(checked) THEN checked
            ELSE Built(z, d, ratio, actual_torque, checked.val)
        Strength(z, d, ratio, actual_torque, g) ==
            Checked(z, d, ratio, actual_torque,
                    IF mixed
                    THEN check_mixed_materials(c.pressure_angle, db, g, c.material, seed)
                    ELSE LET Item(selected) ==
                                 IF ~IsOk(selected) THEN selected
                                 ELSE ResultsItem(selected.val[2], selected.val[1])
                         IN  Item(select_best_material(c.pressure_angle, db, g, "auto")))
        Constrained(z, d, i1, ratio, actual_torque) ==
            IF MotorSpeedAbove(c.output_speed, z, c.max_motor_speed) THEN Ok(None)
            ELSE IF TorqueBelow(c.motor_torque, z, c.output_torque) THEN Ok(None)
            ELSE IF Max2(d[2], d[4]) > c.motor_diameter THEN Ok(None)
            ELSE IF (d[1] - d[3]) < c.min_clearance THEN Ok(None)
            ELSE Strength(z, d, ratio, actual_torque,
                          Geometry(m1, m2, z[1], z[2], z[3], z[4], width1, width2,
                                   c.motor_torque,
                                   FMul(FMul(c.motor_torque, i1), Frac(95, 100))))
        Ratio(z, d, i1, ratio) ==
            Constrained(z, d, i1, ratio, FMul(FMul(c.motor_torque, ratio), Frac(9025, 10000)))
        Teeth(z) ==
            IF BelowTeethFloor(z, c.min_teeth) THEN Ok(None)
            ELSE IF z[1] = 0 \/ z[3] = 0 THEN Raise("ZeroDivisionError")
            ELSE Ratio(z, <<z[1] * m1, z[2] * m1, z[3] * m2, z[4] * m2>>,
                       Frac(z[2], z[1]), FMul(Frac(z[2], z[1]), Frac(z[4], z[3])))
    IN  IF m1 = 0 \/ m2 = 0 THEN Raise("ZeroDivisionError")
        ELSE Teeth(<<ToothCount(d1_in, m1), ToothCount(d2_in, m1),
                     ToothCount(d3_in, m2), ToothCount(d4_in, m2)>>)

(***************************************************************************)
(* kimi_proposal_speed: material selection and the per-candidate evaluator *)
(***************************************************************************)
\* The greatest of the four root stresses as the scripts compute them
max_sigma_F(g) ==
    FMax([i \in 1..4 |->
            calculate_bending_stress(g.m[i], g.z[i], g.width[i], GearTorque(g, i))[1]])

\* select_material_by_strength(m1, m2, z1..z4, width1, width2, torque1,
\* torque2, material_db): returns (selected_key, check_results); the
\* check_results dict is kept as the sequence of its values in insertion order
select_material_by_strength(g, material_db) ==
    LET Check(props, max_sigma) ==
            [material_key |-> props.key,
             name |-> props.name,
             max_stress |-> max_sigma,
             allow_stress |-> AllowStress(props),
             strength_ok |-> FLE(max_sigma, AllowStress(props)),
             sf_ratio_ok |-> SfOk(props, g.m[1], 20) /\ SfOk(props, g.m[3], 20),
             suitable |-> /\ FLE(max_sigma, AllowStress(props))
                          /\ SfOk(props, g.m[1], 20) /\ SfOk(props, g.m[3], 20),
             safety_margin |-> IF FLT(FZero, max_sigma)
                               THEN FDiv(AllowStress(props), max_sigma) ELSE FInf,
             density |-> <<props.density, 1>>]
        Select(check_results) == <<PickLightest(check_results), check_results>>
        Results(max_sigma) ==
            Select([i \in 1..Len(material_db) |-> Check(material_db[i], max_sigma)])
    IN  Results(max_sigma_F(g))

\* The call of select_material_by_strength with the exceptions of its loop
\* body: 'torque1 * z2 / z1', 'torque2 * z4 / z3' and 'sf1 / m1', 'sf2 / m2'
\* raise ZeroDivisionError on a zero divisor; 'sf2 / m2' is evaluated only
\* for a material whose first comparison 'sf1 / m1 >= sf_min_ratio' is true
select_material_by_strength_call(g, material_db) ==
    IF /\ material_db # <<>>
       /\ \/ g.z[1] = 0 \/ g.z[3] = 0 \/ g.m[1] = 0
          \/ /\ g.m[3] = 0
             /\ \E i \in 1..Len(material_db) : SfOk(material_db[i], g.m[1], 20)
    THEN Raise("ZeroDivisionError")
    ELSE Ok(select_material_by_strength(g, material_db))

\* "for key, result in mat_check_results.items(): if result['suitable']":
\* the first suitable entry in dict order, 0 when there is none
FirstSuitable(results) ==
    IF \E i \in 1..Len(results) : results[i].suitable
    THEN CHOOSE i \in 1..Len(results) :
            results[i].suitable /\ \A j \in 1..(i - 1) : ~results[j].suitable
    ELSE 0

\* A rescan that always takes the first suitable entry when there is one
RescanToFirstSuitable(mat_check_results, selected_mat, material_mode) ==
    LET Pick(first_result, rescan) ==
            IF material_mode = "auto" /\ rescan # 0
            THEN mat_check_results[rescan] ELSE first_result
    IN  Pick(ResultsItem(mat_check_results, selected_mat).val, FirstSuitable(mat_check_results))

\* mat_result after "mat_result = mat_check_results[selected_mat]" and the
\* rescan "if not strength_pass and mode == 'auto': for key, result in ..."
Rescan(mat_check_results, selected_mat, material_mode) ==
    LET Pick(first_result, rescan) ==
            IF ~first_result.suitable /\ material_mode = "auto" /\ rescan # 0
            THEN mat_check_results[rescan] ELSE first_result
    IN  Pick(ResultsItem(mat_check_results, selected_mat).val, FirstSuitable(mat_check_results))

\* evaluate_single_design(params); c carries the values optimize_gear_design
\* packs into every task tuple (and MIN_TEETH / MIN_CLEARANCE, which the
\* function does not read)
evaluate_single_design(c, m1, m2, width_factor1, width_factor2, D1, D2, D3, D4) ==
    LET local_material_mode == c.MATERIAL_MODE
        local_material_db == c.MATERIAL_DB
        width1 == width_factor1 * m1
        width2 == width_factor2 * m2
        Built(z, D_real, i1, i2, Total_Ratio, desired_motor_speed, actual_output_torque,
              temp_density, mat_result, mat_props) ==
            IF ~mat_result.suitable THEN Ok(None)
            ELSE Ok([kind |-> "design",
                     m1 |-> m1, m2 |-> m2, z |-> z, D |-> D_real,
                     width1 |-> width1, width2 |-> width2,
                     wheelbase1 |-> Frac(D_real[1] + D_real[2], 2),
                     wheelbase2 |-> Frac(D_real[3] + D_real[4], 2),
                     i1 |-> i1, i2 |-> i2, Total_Ratio |-> Total_Ratio,
                     output_speed |-> c.output_speed,
                     desired_motor_speed |-> desired_motor_speed,
                     output_torque |-> actual_output_torque,
                     gear_weight_g |-> <<Volume8(D_real, width1, width2) * mat_props.density, 1>>,
                     total_weight_g |->
                         [gears |-> <<Volume8(D_real, width1, width2) * mat_props.density, 1>>,
                          motor |-> c.motor_weight],
                     total_size |->
                         Frac(c.motor_D + D_real[1] + D_real[2] + D_real[3] + 2 * D_real[4], 2),
                     material_key |-> mat_result.material_key,
                     material_name |-> mat_props.name,
                     material_density |-> mat_props.density,
                     max_bending_stress |-> mat_result.max_stress,
                     allow_bending_stress |-> mat_result.allow_stress,
                     strength_check_pass |-> mat_result.suitable,
                     metric |->
                         IF c.OPTIMIZATION_MODE = "weight"
                         THEN <<Volume8(D_real, width1, width2) * temp_density, 1>>
                         ELSE Frac(c.motor_D + D_real[1] + D_real[2] + D_real[3]
                                       + 2 * D_real[4], 2),
                     selected_material_result |->
                         [name |-> mat_props.name,
                          max_stress |-> mat_result.max_stress,
                          allow_stress |-> mat_result.allow_stress,
                          suitable |-> mat_result.suitable,
                          safety_margin |-> mat_result.safety_margin,
                          density |-> mat_props.density]])
        Rescanned(z, D_real, i1, i2, Total_Ratio, desired_motor_speed, actual_output_torque,
                  temp_density, mat_result) ==
            Built(z, D_real, i1, i2, Total_Ratio, desired_motor_speed, actual_output_torque,
                  temp_density, mat_result,
                  local_material_db[DbIndex(local_material_db, mat_result.material_key)])
        Selected(z, D_real, i1, i2, Total_Ratio, desired_motor_speed, actual_output_torque,
                 temp_density, selected_mat, mat_check_results) ==
            IF ~HasKey(mat_check_results, selected_mat) THEN Ok(None)
            ELSE Rescanned(z, D_real, i1, i2, Total_Ratio, desired_motor_speed,
                           actual_output_torque, temp_density,
                           Rescan(mat_check_results, selected_mat, local_material_mode))
        Strength(z, D_real, i1, i2, Total_Ratio, desired_motor_speed, actual_output_torque,
                 temp_material, g) ==
            IF ~IsOk(temp_material) THEN temp_material
            ELSE IF local_material_mode = "auto"
            THEN LET Auto(selection) ==
                         Selected(z, D_real, i1, i2, Total_Ratio, desired_motor_speed,
                                  actual_output_torque, temp_material.val.density,
                                  selection[1], selection[2])
                 IN  Auto(select_material_by_strength(g, local_material_db))
            ELSE Selected(z, D_real, i1, i2, Total_Ratio, desired_motor_speed,
                          actual_output_torque, temp_material.val.density,
                          local_material_mode,
                          select_material_by_strength(g, <<temp_material.val>>)[2])
        Constrained(z, D_real, i1, i2, Total_Ratio, desired_motor_speed,
                    actual_output_torque) ==
            IF D_real[1] + D_real[2] <= 0 \/ D_real[3] + D_real[4] <= 0 THEN Ok(None)
            ELSE IF MotorSpeedAbove(c.output_speed, z, c.max_motor_speed) THEN Ok(None)
            ELSE IF TorqueBelowTwoStage(c.motor_torque, z, c.output_torque) THEN Ok(None)
            ELSE IF Max2(D_real[2], D_real[4]) > c.motor_D THEN Ok(None)
            ELSE IF (D_real[1] - D_real[3]) < 1 THEN Ok(None)
            ELSE Strength(z, D_real, i1, i2, Total_Ratio, desired_motor_speed,
                          actual_output_torque,
                          DbItem(local_material_db,
                                 IF local_material_mode = "auto" THEN "steel"
                                 ELSE local_material_mode),
                          Geometry(m1, m2, z[1], z[2], z[3], z[4], width1, width2,
                                   c.motor_torque,
                                   FMul(FMul(c.motor_torque, i1), Frac(95, 100))))
        Ratio(z, D_real, i1, i2, Total_Ratio) ==
            Constrained(z, D_real, i1, i2, Total_Ratio,
                        FMul(<<c.output_speed, 1>>, Total_Ratio),
                        FMul(FMul(FMul(c.motor_torque, Total_Ratio), Frac(95, 100)),
                             Frac(95, 100)))
        Teeth(z) ==
            IF z[1] < 17 \/ z[2] < 17 \/ z[3] < 17 \/ z[4] < 17 THEN Ok(None)
            ELSE Ratio(z, <<z[1] * m1, z[2] * m1, z[3] * m2, z[4] * m2>>,
                       Frac(z[2], z[1]), Frac(z[4], z[3]),
                       FMul(Frac(z[2], z[1]), Frac(z[4], z[3])))
    IN  Teeth(<<ToothCount(D1, m1), ToothCount(D2, m1),
                ToothCount(D3, m2), ToothCount(D4, m2)>>)

(***************************************************************************)
(* kimi_proposal_single: material selection and the evaluator              *)
(***************************************************************************)
\* select_material(m1, m2, z1..z4, width1, width2, T1, T2) over MATERIAL_DB
select_material(g, material_db) ==
    LET Check(props, max_sigma) ==
            [material_key |-> props.key,
             suitable |-> /\ FLE(max_sigma, AllowStress(props))
                          /\ FLE(Frac(props.sf_min_ratio, 100), Frac(sf_factor(20), 10000)),
             max_stress |-> max_sigma,
             allow_stress |-> AllowStress(props),
             density |-> <<props.density, 1>>]
        Select(check_results) == <<PickLightest(check_results), check_results>>
        Results(max_sigma) ==
            Select([i \in 1..Len(material_db) |-> Check(material_db[i], max_sigma)])
    IN  Results(max_sigma_F(g))

\* kimi_proposal_single.evaluate_design(m1, m2, D1, D2, D3, D4)
ks_evaluate_design(c, m1, m2, D1, D2, D3, D4) ==
    LET width1 == c.WIDTH_FACTOR1 * m1
        width2 == c.WIDTH_FACTOR2 * m2
        Built(z, Dr, ratio, selected_mat) ==
            Ok([kind |-> "design",
                m1 |-> m1, m2 |-> m2, z |-> z, D |-> Dr,
                ratio |-> ratio,
                material |-> selected_mat,
                weight_g |-> <<Volume8(Dr, width1, width2)
                                 * DbItem(c.MATERIAL_DB, selected_mat).val.density, 1>>,
                total_size |-> Frac(c.MOTOR_D + Dr[1] + Dr[2] + Dr[3] + Dr[4], 2),
                output_torque |-> FMul(FMul(c.MOTOR_TORQUE_LOWER, ratio), Frac(9025, 10000))])
        Selected(z, Dr, ratio, selected_mat, mat_results) ==
            IF ~HasKey(mat_results, selected_mat) THEN Raise("KeyError")
            ELSE IF ResultsItem(mat_results, selected_mat).val.suitable
            THEN Built(z, Dr, ratio, selected_mat)
            ELSE IF FirstSuitable(mat_results) = 0 THEN Ok(None)
            ELSE Built(z, Dr, ratio, mat_results[FirstSuitable(mat_results)].material_key)
        Strength(z, Dr, ratio, selection) == Selected(z, Dr, ratio, selection[1], selection[2])
        Ratio(z, Dr, i1, ratio) ==
            IF MotorSpeedAbove(c.OUTPUT_SPEED, z, c.MAX_MOTOR_SPEED) THEN Ok(None)
            ELSE IF TorqueBelow(c.MOTOR_TORQUE_LOWER, z, c.OUTPUT_TORQUE) THEN Ok(None)
            ELSE IF Max2(Dr[2], Dr[4]) > c.MOTOR_D THEN Ok(None)
            ELSE IF (Dr[1] - Dr[3]) < c.MIN_CLEARANCE THEN Ok(None)
            ELSE Strength(z, Dr, ratio,
                          select_material(
                              Geometry(m1, m2, z[1], z[2], z[3], z[4], width1, width2,
                                       c.MOTOR_TORQUE_LOWER,
                                       FMul(FMul(c.MOTOR_TORQUE_LOWER, i1), Frac(95, 100))),
                              c.MATERIAL_DB))
        Teeth(z) ==
            IF z[1] < c.MIN_TEETH \/ z[2] < c.MIN_TEETH \/ z[3] < c.MIN_TEETH \/ z[4] < c.MIN_TEETH
            THEN Ok(None)
            ELSE IF z[1] = 0 \/ z[3] = 0 THEN Raise("ZeroDivisionError")
            ELSE Ratio(z, <<z[1] * m1, z[2] * m1, z[3] * m2, z[4] * m2>>,
                       Frac(z[2], z[1]), FMul(Frac(z[2], z[1]), Frac(z[4], z[3])))
    IN  Teeth(<<Round(D1, m1), Round(D2, m1), Round(D3, m2), Round(D4, m2)>>)

(***************************************************************************)
(* debug_main: the evaluator that names the rejection reason               *)
(***************************************************************************)
\* debug_main.select_material_by_strength: the same computation as in
\* kimi_proposal_speed over the module's MATERIAL_DB, keeping five fields
dm_select_material_by_strength(g, material_db) ==
    LET Strip(sel) ==
            <<sel[1],
              [i \in 1..Len(sel[2]) |->
                  [material_key |-> sel[2][i].material_key,
                   suitable |-> sel[2][i].suitable,
                   max_stress |-> sel[2][i].max_stress,
                   allow_stress |-> sel[2][i].allow_stress,
                   strength_ok |-> sel[2][i].strength_ok,
                   sf_ratio_ok |-> sel[2][i].sf_ratio_ok]]>>
    IN  Strip(select_material_by_strength(g, material_db))

\* A teeth check against the literal 17 instead of MIN_TEETH
TeethFailBelowSeventeen(c, z) == z[1] < 17 \/ z[2] < 17 \/ z[3] < 17 \/ z[4] < 17

\* The checks of debug_main.evaluate_design, each on the rounded tooth counts
TeethFail(c, z) ==
    z[1] < c.MIN_TEETH \/ z[2] < c.MIN_TEETH \/ z[3] < c.MIN_TEETH \/ z[4] < c.MIN_TEETH

\* A wheelbase check with its comparisons turned round
WheelbaseFailWhenPositive(m1, m2, z) ==
    z[1] * m1 + z[2] * m1 >= 0 \/ z[3] * m2 + z[4] * m2 >= 0

\* "if wheelbase1 <= 0 or wheelbase2 <= 0"
WheelbaseFail(m1, m2, z) == z[1] * m1 + z[2] * m1 <= 0 \/ z[3] * m2 + z[4] * m2 <= 0

TotalRatio(z) == FMul(Frac(z[2], z[1]), Frac(z[4], z[3]))

MotorSpeedFail(c, z) == MotorSpeedAbove(c.OUTPUT_SPEED, z, c.MAX_MOTOR_SPEED)

OutputTorqueFail(c, z) == TorqueBelowTwoStage(c.MOTOR_TORQUE_LOWER, z, c.OUTPUT_TORQUE)

EnvelopeFail(c, m1, m2, z) == Max2(z[2] * m1, z[4] * m2) > c.MOTOR_D

ClearanceFail(c, m1, m2, z) == (z[1] * m1 - z[3] * m2) < c.MIN_CLEARANCE

\* The checks in another order: the clearance check moved up to follow the
\* teeth check
GeometryChecksClearanceFirst(c, m1, m2, z) ==
    IF TeethFail(c, z) THEN "teeth"
    ELSE IF ClearanceFail(c, m1, m2, z) THEN "clearance"
    ELSE IF WheelbaseFail(m1, m2, z) THEN "wheelbase"
    ELSE IF MotorSpeedFail(c, z) THEN "motor_speed"
    ELSE IF OutputTorqueFail(c, z) THEN "output_torque"
    ELSE IF EnvelopeFail(c, m1, m2, z) THEN "envelope"
    ELSE "pass"

\* Steps 2 to 10 of debug_main.evaluate_design: the reason of the first
\* "return None, reason" that is taken, "pass" when step 11 is reached
GeometryChecks(c, m1, m2, z) ==
    IF TeethFail(c, z) THEN "teeth"
    ELSE IF WheelbaseFail(m1, m2, z) THEN "wheelbase"
    ELSE IF MotorSpeedFail(c, z) THEN "motor_speed"
    ELSE IF OutputTorqueFail(c, z) THEN "output_torque"
    ELSE IF EnvelopeFail(c, m1, m2, z) THEN "envelope"
    ELSE IF ClearanceFail(c, m1, m2, z) THEN "clearance"
    ELSE "pass"

\* debug_main.evaluate_design(m1, m2, wf1, wf2, D1, D2, D3, D4):
\* returns the pair (design or None, reason)
dm_evaluate_design(c, m1, m2, wf1, wf2, D1, D2, D3, D4) ==
    LET Built(z, mat_result) ==
            IF ~mat_result.suitable THEN <<None, "strength">>
            ELSE <<[kind |-> "design",
                    m1 |-> m1, m2 |-> m2, z |-> z,
                    D |-> <<z[1] * m1, z[2] * m1, z[3] * m2, z[4] * m2>>,
                    ratio |-> TotalRatio(z),
                    material |-> mat_result.material_key,
                    max_stress |-> mat_result.max_stress,
                    allow_stress |-> mat_result.allow_stress], "ok">>
        Selected(z, selected_mat, mat_check_results) ==
            IF ~HasKey(mat_check_results, selected_mat) THEN <<None, "material_not_found">>
            ELSE Built(z, Rescan(mat_check_results, selected_mat, c.MATERIAL_MODE))
        Strength(z, selection) == Selected(z, selection[1], selection[2])
        Checks(z, reason) ==
            IF reason # "pass" THEN <<None, reason>>
            ELSE Strength(z,
                          dm_select_material_by_strength(
                              Geometry(m1, m2, z[1], z[2], z[3], z[4], wf1 * m1, wf2 * m2,
                                       c.MOTOR_TORQUE_LOWER,
                                       FMul(FMul(c.MOTOR_TORQUE_LOWER, Frac(z[2], z[1])),
                                            Frac(95, 100))),
                              c.MATERIAL_DB))
        Teeth(z) == Checks(z, GeometryChecks(c, m1, m2, z))
    IN  Teeth(<<Round(D1, m1), Round(D2, m1), Round(D3, m2), Round(D4, m2)>>)

(***************************************************************************)
(* Catalogs injected in place of the built-in tables                       *)
(***************************************************************************)
\* steel and a polymer that passes the root-thickness gate at 20 degrees
LightDb ==
    << Material("steel", "20CrMnTi", 785, 600, 30, 20),
       Material("nylon", "PA66", 115, 70, 50, 25) >>

\* no 'steel' key
PolymerDb ==
    << Material("nylon", "PA66", 115, 70, 50, 25),
       Material("pom", "POM", 141, 65, 50, 25) >>

\* two polymers of equal density
TieDb ==
    << Material("steel", "20CrMnTi", 785, 600, 30, 20),
       Material("pom", "POM", 115, 65, 50, 25),
       Material("nylon", "PA66", 115, 70, 50, 25) >>

\* a steel too weak for the modelled loads and a polymer that fails the
\* root-thickness gate: nothing is suitable
WeakDb ==
    << Material("steel", "20CrMnTi", 785, 20, 30, 20),
       Material("nylon", "PA66", 115, 70, 90, 28) >>

\* Bounds of the modelled search grid: the diameter scan step and the upper
\* ends of the four diameter ranges
GridStep == 8

D1Hi == 26

D2Hi == 76

D3Hi == 25

D4Hi == 59

(***************************************************************************)
(* GearOptimizer.optimize: the sequential sweep                            *)
(***************************************************************************)
\* GearConfig with the defaults of the dataclass, the scan ranges and module
\* options of the modelled grid, and material = <<material_z1..material_z4>>
GearConfig(min_teeth, material, optimize_mode) ==
    [motor_torque |-> <<4, 5>>, output_torque |-> 5,
     max_motor_speed |-> 4000, output_speed |-> 350,
     motor_diameter |-> 75, min_clearance |-> 1, min_teeth |-> min_teeth,
     d1_range |-> <<18, D1Hi>>, d2_range |-> <<52, D2Hi>>,
     d3_range |-> <<17, D3Hi>>, d4_range |-> <<35, D4Hi>>,
     step |-> GridStep,
     m1_options |-> <<1, 2>>, m2_options |-> <<1, 2>>,
     width_factors1 |-> <<10, 15>>, width_factors2 |-> <<6, 10>>,
     material |-> material, optimize_mode |-> optimize_mode,
     pressure_angle |-> 20]

MaterialAssignments ==
    { <<"steel", "steel", "steel", "steel">>,
      <<"steel", "nylon", "steel", "steel">>,
      <<"nylon", "pom", "steel", "peek_cf30">>,
      <<"steel", "peek", "steel", "steel">> }

GridConfigs ==
    { GearConfig(mt, mat, mode) :
        mt \in {12, 17}, mat \in MaterialAssignments, mode \in {"size", "weight"} }

\* The default limits with scan ranges that hold the candidate
\* (d1, d2, d3, d4) = (21, 75, 20, 64), whose motor speed at m1 = m2 = 1 is
\* 350 * (75 / 21) * (64 / 20), in exact arithmetic the limit of 4000 rpm
OnBoundConfigs ==
    { [GearConfig(17, mat, "size") EXCEPT !.d1_range = <<13, 21>>, !.d2_range = <<67, 75>>,
                                          !.d3_range = <<12, 20>>, !.d4_range = <<56, 64>>] :
        mat \in { <<"steel", "nylon", "steel", "steel">> } }

\* A minimum clearance other than the default of 1 mm
WideClearanceConfigs ==
    { [GearConfig(17, <<"steel", "nylon", "steel", "steel">>, "size") EXCEPT !.min_clearance = 2] }

\* A minimum tooth count that no candidate of the grid reaches
NoFeasibleConfigs ==
    { GearConfig(1000, mat, "size") :
        mat \in { <<"steel", "steel", "steel", "steel">>, <<"steel", "nylon", "steel", "steel">> } }

\* Configurations with an empty option list, an inverted diameter range or
\* a module that is not positive
MalformedConfigs ==
    { [GearConfig(17, <<"steel", "nylon", "steel", "steel">>, "size") EXCEPT !.m1_options = <<>>],
      [GearConfig(17, <<"steel", "nylon", "steel", "steel">>, "size") EXCEPT !.width_factors2 = <<>>],
      [GearConfig(17, <<"steel", "nylon", "steel", "steel">>, "size") EXCEPT !.d1_range = <<26, 18>>],
      [GearConfig(17, <<"steel", "nylon", "steel", "steel">>, "size") EXCEPT !.m1_options = <<0, 1>>],
      [GearConfig(17, <<"steel", "nylon", "steel", "steel">>, "size") EXCEPT !.m1_options = <<1, 0>>],
      [GearConfig(17, <<"steel", "nylon", "steel", "steel">>, "size") EXCEPT !.m1_options = <<-1, 1>>] }

\* Scan ranges of step 1 with module m1 = 2: the nominal diameters 35 and
\* 36 both round to 18 teeth, 72 and 73 both to 36 teeth
SameTeethConfigs ==
    { [GearConfig(17, mat, "weight") EXCEPT !.d1_range = <<35, 36>>, !.d2_range = <<72, 73>>,
                                            !.d3_range = <<17, 17>>, !.d4_range = <<60, 60>>,
                                            !.step = 1,
                                            !.m1_options = <<2>>, !.m2_options = <<1>>] :
        mat \in { <<"steel", "steel", "steel", "steel">>, <<"steel", "nylon", "steel", "steel">> } }

OptimizerConfigs ==
    GridConfigs \cup OnBoundConfigs \cup WideClearanceConfigs \cup NoFeasibleConfigs
        \cup MalformedConfigs \cup SameTeethConfigs

\* The nested loops of optimize, outermost first: m1, m2, d1..d4, wf1, wf2
SearchLists(c) ==
    << c.m1_options, c.m2_options,
       RangeList(c.d1_range[1], c.d1_range[2], c.step),
       RangeList(c.d2_range[1], c.d2_range[2], c.step),
       RangeList(c.d3_range[1], c.d3_range[2], c.step),
       RangeList(c.d4_range[1], c.d4_range[2], c.step),
       c.width_factors1, c.width_factors2 >>

total_count(c) == ProductLen(SearchLists(c))

\* self.evaluate(m1, m2, d1, d2, d3, d4, wf1, wf2) at the k-th loop iteration
EvaluateAt(c, seed, k) ==
    LET Call(t) == evaluate(c, seed, t[1], t[2], t[3], t[4], t[5], t[6], t[7], t[8])
    IN  Call(NthTuple(SearchLists(c), k))

\* metric = result.total_size if mode == 'size' else result.weight_g
Metric(c, result) ==
    IF c.optimize_mode = "size" THEN result.total_size ELSE result.weight_g

\* "if metric <= best_metric": the comparison that would let a later
\* candidate of equal metric take the place of the best
ImprovesOrEquals(metric, bm) == FLE(metric, bm)

\* "if metric < best_metric"
Improves(metric, bm) == FLT(metric, bm)

NoOutcome == [op |-> "none"]

Called(op, arg, out) == [op |-> op, arg |-> arg, out |-> out]

NoCounts == [r \in {} |-> 0]

\* The loop body after the evaluator returned or raised: count the
\* candidate, count an accepted design and keep it if its metric improves;
\* metric is the metric of the result when the result is a design
Tally(op, result, metric) ==
    /\ last' = Called(op, completed, result)
    /\ IF ~IsOk(result)
       THEN /\ pc' = "raised"
            /\ UNCHANGED <<completed, best, best_metric, valid_count>>
       ELSE /\ pc' = pc
            /\ completed' = completed + 1
            /\ IF result.val.kind = "design"
               THEN /\ valid_count' = valid_count + 1
                    /\ IF Improves(metric, best_metric)
                       THEN best_metric' = metric /\ best' = result.val
                       ELSE UNCHANGED <<best, best_metric>>
               ELSE UNCHANGED <<best, best_metric, valid_count>>

\* One iteration of the innermost loop body of GearOptimizer.optimize; an
\* exception raised by evaluate leaves optimize
OptimizeStep ==
    /\ prog = "optimizer" /\ pc = "run"
    /\ completed < total_count(cfg)
    /\ LET Body(result) ==
               Tally("evaluate", result,
                     IF IsOk(result) /\ result.val.kind = "design"
                     THEN Metric(cfg, result.val) ELSE FInf)
       IN  Body(EvaluateAt(cfg, hashseed, completed))
    /\ UNCHANGED <<prog, cfg, hashseed, fail_counts, pending>>

\* "return best_result, valid_count, total_count" once the loops are exhausted
OptimizeReturn ==
    /\ prog = "optimizer" /\ pc = "run"
    /\ completed = total_count(cfg)
    /\ pc' = "done"
    /\ UNCHANGED <<prog, cfg, hashseed, completed, best, best_metric, valid_count,
                   fail_counts, last, pending>>

InitOptimizer ==
    /\ prog = "optimizer"
    /\ cfg \in OptimizerConfigs
    /\ hashseed \in {0, 1}
    /\ pc = "run" /\ completed = 0
    /\ best = None /\ best_metric = FInf /\ valid_count = 0
    /\ fail_counts = NoCounts /\ last = NoOutcome /\ pending = {}

(***************************************************************************)
(* kimi_proposal_single.main: the sequential sweep                         *)
(***************************************************************************)
\* The module constants of kimi_proposal_single / debug_main, with the scan
\* ranges and module options of the modelled grid
KimiConfig(min_teeth, mode, db) ==
    [MOTOR_TORQUE_LOWER |-> <<4, 5>>, OUTPUT_TORQUE |-> 4,
     MAX_MOTOR_SPEED |-> 4000, OUTPUT_SPEED |-> 250,
     MOTOR_D |-> 75, MIN_CLEARANCE |-> 1, MIN_TEETH |-> min_teeth,
     D1_MIN |-> 18, D1_MAX |-> D1Hi, D2_MIN |-> 52, D2_MAX |-> D2Hi,
     D3_MIN |-> 17, D3_MAX |-> D3Hi, D4_MIN |-> 35, D4_MAX |-> D4Hi,
     STEP |-> GridStep,
     M1_OPTIONS |-> <<1, 2>>, M2_OPTIONS |-> <<1, 2>>,
     WIDTH_FACTOR1 |-> 15, WIDTH_FACTOR2 |-> 10,
     OPTIMIZATION_MODE |-> mode, MATERIAL_MODE |-> "auto", MATERIAL_DB |-> db]

KimiGridConfigs ==
    { KimiConfig(mt, mode, db) :
        mt \in {12, 17}, mode \in {"size", "weight"},
        db \in {MATERIAL_DB, LightDb, PolymerDb, WeakDb} }

\* MIN_CLEARANCE other than 1 mm
KimiWideClearanceConfigs ==
    { [KimiConfig(17, "size", MATERIAL_DB) EXCEPT !.MIN_CLEARANCE = 2] }

\* MIN_TEETH that no candidate of the grid reaches
KimiNoFeasibleConfigs == { KimiConfig(1000, "size", MATERIAL_DB) }

KimiConfigs == KimiGridConfigs \cup KimiWideClearanceConfigs \cup KimiNoFeasibleConfigs

\* The nested loops of main (and of the debug_main script): m1, m2, D1..D4
KimiLists(c) ==
    << c.M1_OPTIONS, c.M2_OPTIONS,
       RangeList(c.D1_MIN, c.D1_MAX, c.STEP), RangeList(c.D2_MIN, c.D2_MAX, c.STEP),
       RangeList(c.D3_MIN, c.D3_MAX, c.STEP), RangeList(c.D4_MIN, c.D4_MAX, c.STEP) >>

total_tasks(c) == ProductLen(KimiLists(c))

SingleEvaluateAt(c, k) ==
    LET Call(t) == ks_evaluate_design(c, t[1], t[2], t[3], t[4], t[5], t[6])
    IN  Call(NthTuple(KimiLists(c), k))

KimiMetric(c, result) ==
    IF c.OPTIMIZATION_MODE = "size" THEN result.total_size ELSE result.weight_g

\* One iteration of the loop body of kimi_proposal_single.main
SingleStep ==
    /\ prog = "single" /\ pc = "run"
    /\ completed < total_tasks(cfg)
    /\ LET Body(result) ==
               Tally("evaluate_design", result,
                     IF IsOk(result) /\ result.val.kind = "design"
                     THEN KimiMetric(cfg, result.val) ELSE FInf)
       IN  Body(SingleEvaluateAt(cfg, completed))
    /\ UNCHANGED <<prog, cfg, hashseed, fail_counts, pending>>

SingleDone ==
    /\ prog = "single" /\ pc = "run"
    /\ completed = total_tasks(cfg)
    /\ pc' = "done"
    /\ UNCHANGED <<prog, cfg, hashseed, completed, best, best_metric, valid_count,
                   fail_counts, last, pending>>

InitSingle ==
    /\ prog = "single"
    /\ cfg \in KimiConfigs
    /\ hashseed = 0
    /\ pc = "run" /\ completed = 0
    /\ best = None /\ best_metric = FInf /\ valid_count = 0
    /\ fail_counts = NoCounts /\ last = NoOutcome /\ pending = {}

(***************************************************************************)
(* kimi_proposal_speed.optimize_gear_design: the parallel sweep            *)
(***************************************************************************)
\* The module constants of kimi_proposal_speed that the sweep reads, with
\* the scan ranges, width-factor ranges and module options of the modelled
\* grid (OPTIMIZE_WIDTH_FACTOR = True)
SpeedConfig(min_teeth, material_mode, db, mode) ==
    [motor_torque |-> <<4, 5>>, output_torque |-> 4,
     max_motor_speed |-> 4000, output_speed |-> 250,
     motor_D |-> 75, motor_weight |-> 300,
     MIN_CLEARANCE |-> 1, MIN_TEETH |-> min_teeth,
     D1_min |-> 18, D1_max |-> 18, D2_min |-> 52, D2_max |-> 60,
     D3_min |-> 17, D3_max |-> 17, D4_min |-> 43, D4_max |-> 43,
     step |-> GridStep,
     m1_options |-> <<1>>, m2_options |-> <<1, 2>>,
     width_factor1_min |-> 10, width_factor1_max |-> 10,
     width_factor2_min |-> 10, width_factor2_max |-> 16, width_factor_step |-> 6,
     OPTIMIZATION_MODE |-> mode, MATERIAL_MODE |-> material_mode, MATERIAL_DB |-> db]

SpeedGridConfigs ==
    { SpeedConfig(mt, mm, db, mode) :
        mt \in {17, 18}, mm \in {"auto", "nylon"},
        db \in {MATERIAL_DB, LightDb, PolymerDb, WeakDb}, mode \in {"size", "weight"} }

\* MIN_CLEARANCE other than 1 mm
SpeedWideClearanceConfigs ==
    { [SpeedConfig(17, "auto", MATERIAL_DB, "size") EXCEPT !.MIN_CLEARANCE = 2] }

\* A fixed MATERIAL_MODE that is not a key of the catalog
SpeedMissingMaterialConfigs ==
    { SpeedConfig(17, "pom", LightDb, mode) : mode \in {"size", "weight"} }

\* Scan ranges of step 1 with module m1 = 2: the nominal diameters 35 and
\* 36 both round to 18 teeth, 72 and 73 both to 36 teeth
SpeedSameTeethConfigs ==
    { [SpeedConfig(17, "auto", MATERIAL_DB, "weight") EXCEPT
           !.D1_min = 35, !.D1_max = 36, !.D2_min = 72, !.D2_max = 73,
           !.D3_min = 17, !.D3_max = 17, !.D4_min = 60, !.D4_max = 60, !.step = 1,
           !.m1_options = <<2>>, !.m2_options = <<1>>, !.width_factor2_max = 10] }

SpeedConfigs ==
    SpeedGridConfigs \cup SpeedWideClearanceConfigs \cup SpeedMissingMaterialConfigs
        \cup SpeedSameTeethConfigs

\* The nested loops that build the task list: m1, m2, wf1, wf2, D1..D4
SpeedLists(c) ==
    << c.m1_options, c.m2_options,
       RangeList(c.width_factor1_min, c.width_factor1_max, c.width_factor_step),
       RangeList(c.width_factor2_min, c.width_factor2_max, c.width_factor_step),
       RangeList(c.D1_min, c.D1_max, c.step), RangeList(c.D2_min, c.D2_max, c.step),
       RangeList(c.D3_min, c.D3_max, c.step), RangeList(c.D4_min, c.D4_max, c.step) >>

\* evaluate_single_design(tasks[k])
SpeedEvaluateAt(c, k) ==
    LET Call(t) == evaluate_single_design(c, t[1], t[2], t[3], t[4], t[5], t[6], t[7], t[8])
    IN  Call(NthTuple(SpeedLists(c), k))

\* One iteration of "for result in iterator": imap_unordered hands over the
\* result of any task not yet delivered; an exception raised in a worker is
\* re-raised here and leaves the loop
SpeedDeliver ==
    /\ prog = "speed" /\ pc = "run"
    /\ \E k \in pending :
          LET Deliver(result) ==
                  /\ last' = Called("evaluate_single_design", k, result)
                  /\ IF ~IsOk(result)
                     THEN /\ pc' = "raised"
                          /\ UNCHANGED <<completed, best, best_metric, valid_count, pending>>
                     ELSE /\ pc' = pc
                          /\ pending' = pending \ {k}
                          /\ completed' = completed + 1
                          /\ IF result.val.kind = "design"
                             THEN /\ valid_count' = valid_count + 1
                                  /\ IF Improves(result.val.metric, best_metric)
                                     THEN /\ best_metric' = result.val.metric
                                          /\ best' = result.val
                                     ELSE UNCHANGED <<best, best_metric>>
                             ELSE UNCHANGED <<best, best_metric, valid_count>>
          IN  Deliver(SpeedEvaluateAt(cfg, k))
    /\ UNCHANGED <<prog, cfg, hashseed, fail_counts>>

\* The iterator is exhausted: pool.close(), pool.join(), return the best
SpeedReturn ==
    /\ prog = "speed" /\ pc = "run"
    /\ pending = {}
    /\ pc' = "done"
    /\ UNCHANGED <<prog, cfg, hashseed, completed, best, best_metric, valid_count,
                   fail_counts, last, pending>>

InitSpeed ==
    /\ prog = "speed"
    /\ cfg \in SpeedConfigs
    /\ hashseed = 0
    /\ pc = "run" /\ completed = 0
    /\ best = None /\ best_metric = FInf /\ valid_count = 0
    /\ fail_counts = NoCounts /\ last = NoOutcome
    /\ pending = 0..(ProductLen(SpeedLists(cfg)) - 1)

(***************************************************************************)
(* debug_main: the sweep that tallies the rejection reasons                *)
(***************************************************************************)
\* debug_main reads neither OPTIMIZATION_MODE nor a second speed limit; the
\* lower MAX_MOTOR_SPEED makes the motor-speed check reject candidates of the grid
DebugConfigs ==
    { [c EXCEPT !.MAX_MOTOR_SPEED = s] :
        c \in {k \in KimiConfigs : k.OPTIMIZATION_MODE = "size"}, s \in {4000, 2000} }

Reasons == {"teeth", "wheelbase", "motor_speed", "output_torque", "envelope",
            "clearance", "material_not_found", "strength", "ok"}

DebugEvaluateAt(c, k) ==
    LET Call(t) == dm_evaluate_design(c, t[1], t[2], c.WIDTH_FACTOR1, c.WIDTH_FACTOR2,
                                      t[3], t[4], t[5], t[6])
    IN  Call(NthTuple(KimiLists(c), k))

FAbsDiff(x, y) ==
    LET Abs(n) == IF n < 0 THEN 0 - n ELSE n
    IN  Frac(Abs(x[1] * y[2] - y[1] * x[2]), x[2] * y[2])

\* target_ratio = OUTPUT_TORQUE / MOTOR_TORQUE_LOWER / 0.95 / 0.95
target_ratio(c) ==
    FDiv(FDiv(FDiv(<<c.OUTPUT_TORQUE, 1>>, c.MOTOR_TORQUE_LOWER), Frac(95, 100)), Frac(95, 100))

\* One iteration of the module-level sweep of debug_main
DebugStep ==
    /\ prog = "debug" /\ pc = "run"
    /\ completed < total_tasks(cfg)
    /\ LET Count(result, reason, ratio_diff) ==
               /\ last' = Called("evaluate_design", completed, <<result, reason>>)
               /\ completed' = completed + 1
               /\ fail_counts' = [fail_counts EXCEPT ![reason] = @ + 1]
               /\ IF result.kind = "design"
                  THEN /\ valid_count' = valid_count + 1
                       /\ IF FLT(ratio_diff, best_metric)
                          THEN best_metric' = ratio_diff /\ best' = result
                          ELSE UNCHANGED <<best, best_metric>>
                  ELSE UNCHANGED <<best, best_metric, valid_count>>
           Unpack(r) ==
               Count(r[1], r[2],
                     IF r[1].kind = "design" THEN FAbsDiff(r[1].ratio, target_ratio(cfg))
                     ELSE FInf)
       IN  Unpack(DebugEvaluateAt(cfg, completed))
    /\ UNCHANGED <<prog, cfg, hashseed, pc, pending>>

DebugDone ==
    /\ prog = "debug" /\ pc = "run"
    /\ completed = total_tasks(cfg)
    /\ pc' = "done"
    /\ UNCHANGED <<prog, cfg, hashseed, completed, best, best_metric, valid_count,
                   fail_counts, last, pending>>

InitDebug ==
    /\ prog = "debug"
    /\ cfg \in DebugConfigs
    /\ hashseed = 0
    /\ pc = "run" /\ completed = 0
    /\ best = None /\ best_metric = FInf /\ valid_count = 0
    /\ fail_counts = [r \in Reasons |-> 0] /\ last = NoOutcome /\ pending = {}

(***************************************************************************)
(* Direct calls of the strength checker and of the selection functions     *)
(***************************************************************************)
ToothCounts ==
    { <<18, 52, 17, 43>>, <<12, 37, 17, 47>>, <<18, 60, 25, 51>>,
      <<11, 40, 17, 43>>, <<24, 30, 20, 24>> }

WidthFactors == { <<10, 6>>, <<10, 10>>, <<15, 16>>, <<10, 0>> }

\* Geometries with torque1 = 0.8 N.m and torque2 = torque1 * z2/z1 * 0.95
Geometries ==
    { Geometry(m1, m2, z[1], z[2], z[3], z[4], wf[1] * m1, wf[2] * m2, <<4, 5>>,
               FMul(FMul(<<4, 5>>, Frac(z[2], z[1])), Frac(95, 100))) :
        m1 \in {1, 2}, m2 \in {1, 2}, z \in ToothCounts, wf \in WidthFactors }

Catalogs == {DEFAULT_MATERIALS, MATERIAL_DB, LightDb, PolymerDb, TieDb, WeakDb}

\* material_config dicts {'z1': ..., ...}: complete, partial, and naming a
\* key no catalog holds
MaterialConfigs ==
    { [i \in 1..4 |-> <<"steel", "nylon", "steel", "steel">>[i]],
      [i \in 1..4 |-> <<"nylon", "nylon", "steel", "nylon">>[i]],
      [i \in 1..4 |-> <<"nylon", "pom", "nylon", "pom">>[i]],
      [i \in {2} |-> "nylon"],
      [i \in 1..4 |-> <<"steel", "steel", "brass", "steel">>[i]] }

\* checker.check_material(db[key], ...) for a key of the catalog
CallCheckMaterial ==
    /\ prog = "checker" /\ pc = "run" /\ pc' = "done"
    /\ \E i \in 1..Len(cfg.db) :
          last' = Called("check_material", cfg.db[i].key,
                         check_material(cfg.pressure_angle, cfg.db[i], cfg.g))
    /\ UNCHANGED <<prog, cfg, hashseed, completed, best, best_metric, valid_count,
                   fail_counts, pending>>

\* checker.select_best_material(db, ..., mode)
CallSelectBestMaterial ==
    /\ prog = "checker" /\ pc = "run" /\ pc' = "done"
    /\ \E mode \in {"auto", "nylon"} :
          last' = Called("select_best_material", mode,
                         select_best_material(cfg.pressure_angle, cfg.db, cfg.g, mode))
    /\ UNCHANGED <<prog, cfg, hashseed, completed, best, best_metric, valid_count,
                   fail_counts, pending>>

\* checker.check_mixed_materials(db, ..., material_config)
CallCheckMixedMaterials ==
    /\ prog = "checker" /\ pc = "run" /\ pc' = "done"
    /\ \E material_config \in MaterialConfigs :
          last' = Called("check_mixed_materials", material_config,
                         check_mixed_materials(cfg.pressure_angle, cfg.db, cfg.g,
                                               material_config, hashseed))
    /\ UNCHANGED <<prog, cfg, hashseed, completed, best, best_metric, valid_count,
                   fail_counts, pending>>

\* kimi_proposal_speed.select_material_by_strength(..., material_db)
CallSelectMaterialByStrength ==
    /\ prog = "checker" /\ pc = "run" /\ pc' = "done"
    /\ last' = Called("select_material_by_strength", "auto",
                      select_material_by_strength_call(cfg.g, cfg.db))
    /\ UNCHANGED <<prog, cfg, hashseed, completed, best, best_metric, valid_count,
                   fail_counts, pending>>

\* kimi_proposal_single.select_material(...)
CallSelectMaterial ==
    /\ prog = "checker" /\ pc = "run" /\ pc' = "done"
    /\ last' = Called("select_material", "auto", Ok(select_material(cfg.g, cfg.db)))
    /\ UNCHANGED <<prog, cfg, hashseed, completed, best, best_metric, valid_count,
                   fail_counts, pending>>

InitChecker ==
    /\ prog = "checker"
    /\ cfg \in [db : Catalogs, g : Geometries, pressure_angle : {20, 25}]
    /\ hashseed \in {0, 1}
    /\ pc = "run" /\ completed = 0
    /\ best = None /\ best_metric = FInf /\ valid_count = 0
    /\ fail_counts = NoCounts /\ last = NoOutcome /\ pending = {}

(***************************************************************************)
(* Direct calls of the bending-stress functions on one gear                *)
(***************************************************************************)
\* One gear (m, z, width, torque), also with too few teeth, with a width or
\* a module that is not positive; stage is the stage of a 4-gear geometry
\* whose driving gear it is made
Gears ==
    [m : {-1, 0, 1, 2}, z : {0, 11, 12, 17, 20}, width : {-1, 0, 10, 15},
     torque : {<<4, 5>>, <<2, 1>>}, stage : {1, 2}, db : {MATERIAL_DB}]

\* StrengthChecker.calculate_bending_stress(m, z, width, torque) with the
\* default tip_relief = 0 and helix_angle = 0
CallCheckerBendingStress ==
    /\ prog = "stress" /\ pc = "run" /\ pc' = "done"
    /\ last' = Called("StrengthChecker.calculate_bending_stress", "",
                      Ok(mc_calculate_bending_stress(cfg.m, cfg.z, cfg.width, cfg.torque)))
    /\ UNCHANGED <<prog, cfg, hashseed, completed, best, best_metric, valid_count,
                   fail_counts, pending>>

\* kimi_proposal_speed.calculate_bending_stress(m, z, width, torque)
CallBendingStress ==
    /\ prog = "stress" /\ pc = "run" /\ pc' = "done"
    /\ last' = Called("calculate_bending_stress", "",
                      Ok(calculate_bending_stress(cfg.m, cfg.z, cfg.width, cfg.torque)))
    /\ UNCHANGED <<prog, cfg, hashseed, completed, best, best_metric, valid_count,
                   fail_counts, pending>>

\* The 4-gear geometry whose stage-1 or stage-2 driving gear is the gear c
GearInTrain(c) ==
    IF c.stage = 1
    THEN Geometry(c.m, 1, c.z, 52, 17, 43, c.width, 10, c.torque, <<2, 1>>)
    ELSE Geometry(1, c.m, 18, 52, c.z, 43, 10, c.width, c.torque, <<2, 1>>)

\* kimi_proposal_speed.select_material_by_strength on that geometry
CallSelectOnGear ==
    /\ prog = "stress" /\ pc = "run" /\ pc' = "done"
    /\ last' = Called("select_material_by_strength", "auto",
                      select_material_by_strength_call(GearInTrain(cfg), cfg.db))
    /\ UNCHANGED <<prog, cfg, hashseed, completed, best, best_metric, valid_count,
                   fail_counts, pending>>

InitStress ==
    /\ prog = "stress"
    /\ cfg \in Gears
    /\ hashseed = 0
    /\ pc = "run" /\ completed = 0
    /\ best = None /\ best_metric = FInf /\ valid_count = 0
    /\ fail_counts = NoCounts /\ last = NoOutcome /\ pending = {}

(***************************************************************************)
(* The programs                                                            *)
(***************************************************************************)
Init == InitOptimizer \/ InitSingle \/ InitSpeed \/ InitDebug \/ InitChecker \/ InitStress

Next ==
    \/ OptimizeStep \/ OptimizeReturn
    \/ SingleStep \/ SingleDone
    \/ SpeedDeliver \/ SpeedReturn
    \/ DebugStep \/ DebugDone
    \/ CallCheckMaterial \/ CallSelectBestMaterial \/ CallCheckMixedMaterials
    \/ CallSelectMaterialByStrength \/ CallSelectMaterial
    \/ CallCheckerBendingStress \/ CallBendingStress \/ CallSelectOnGear

Spec == Init /\ [][Next]_vars

\* Each program on its own
SpecOptimizer == InitOptimizer /\ [][OptimizeStep \/ OptimizeReturn]_vars

\* The two sequential sweeps
SpecSweeps ==
    (InitOptimizer \/ InitSingle)
        /\ [][OptimizeStep \/ OptimizeReturn \/ SingleStep \/ SingleDone]_vars

SpecSingle == InitSingle /\ [][SingleStep \/ SingleDone]_vars

SpecSpeed == InitSpeed /\ [][SpeedDeliver \/ SpeedReturn]_vars

SpecDebug == InitDebug /\ [][DebugStep \/ DebugDone]_vars

SpecChecker ==
    InitChecker /\ [][\/ CallCheckMaterial \/ CallSelectBestMaterial
                      \/ CallCheckMixedMaterials
                      \/ CallSelectMaterialByStrength \/ CallSelectMaterial]_vars

SpecStress ==
    InitStress /\ [][CallCheckerBendingStress \/ CallBendingStress \/ CallSelectOnGear]_vars

(***************************************************************************)
(* Properties                                                              *)
(***************************************************************************)
\* Whether each point of a sweep is accepted, and with which metric
Accepted(o) == IsOk(o) /\ o.val.kind = "design"

OptimizerScores ==
    [c \in OptimizerConfigs |->
        [k \in 0..(total_count(c) - 1) |->
            LET Scored(o) ==
                    IF Accepted(o) THEN <<"accepted", Metric(c, o.val)>> ELSE <<"rejected">>
            IN  Scored(EvaluateAt(c, 0, k))]]

SingleScores ==
    [c \in KimiConfigs |->
        [k \in 0..(total_tasks(c) - 1) |->
            LET Scored(o) ==
                    IF Accepted(o) THEN <<"accepted", KimiMetric(c, o.val)>> ELSE <<"rejected">>
            IN  Scored(SingleEvaluateAt(c, k))]]

\* The first of the points 0..n-1 of a scored sweep that is accepted with the
\* least metric of all accepted ones; -1 when none is accepted
FirstLeast(scores, n) ==
    LET acc == {k \in 0..(n - 1) : scores[k][1] = "accepted"}
        ms == {scores[k][2] : k \in acc}
        least == CHOOSE x \in ms : \A y \in ms : FLE(x, y)
        firsts == {k \in acc : scores[k][2] = least}
    IN  IF acc = {} THEN 0 - 1
        ELSE CHOOSE k \in firsts : \A j \in firsts : k <= j

\* C1: in GearOptimizer.optimize and in the sweep of kimi_proposal_single.main,
\* after every evaluated point the best is None iff no candidate has been
\* accepted so far, and otherwise it is the first accepted candidate, in
\* enumeration order, whose metric is the least metric accepted so far
C1_BestIsFirstLeast ==
    /\ prog = "optimizer" =>
          LET first == FirstLeast(OptimizerScores[cfg], completed)
          IN  IF first < 0 THEN best = None /\ best_metric = FInf
              ELSE /\ best = EvaluateAt(cfg, hashseed, first).val
                   /\ best_metric = OptimizerScores[cfg][first][2]
    /\ prog = "single" =>
          LET first == FirstLeast(SingleScores[cfg], completed)
          IN  IF first < 0 THEN best = None /\ best_metric = FInf
              ELSE /\ best = SingleEvaluateAt(cfg, first).val
                   /\ best_metric = SingleScores[cfg][first][2]

\* C1 (witness): the optimizer has just accepted a candidate whose metric
\* equals the best metric, and the best is an earlier candidate
C1_EqualMetricMetLater ==
    /\ prog = "optimizer"
    /\ last.op = "evaluate" /\ IsOk(last.out) /\ last.out.val.kind = "design"
    /\ Metric(cfg, last.out.val) = best_metric
    /\ best # last.out.val

\* The accepted tasks of a sweep of kimi_proposal_speed over configuration c
SpeedAccepted(c) ==
    {k \in 0..(ProductLen(SpeedLists(c)) - 1) :
        IsOk(SpeedEvaluateAt(c, k)) /\ SpeedEvaluateAt(c, k).val.kind = "design"}

\* C2: in 'weight' mode, when optimize_gear_design returns and some candidate
\* of the grid is accepted, the returned candidate's gear_weight_g is the
\* least gear_weight_g of all accepted candidates of the grid
C2_ReturnsLeastGearMass ==
    (prog = "speed" /\ pc = "done" /\ cfg.OPTIMIZATION_MODE = "weight"
        /\ SpeedAccepted(cfg) # {}) =>
       /\ best # None
       /\ \A k \in SpeedAccepted(cfg) :
             FLE(best.gear_weight_g, SpeedEvaluateAt(cfg, k).val.gear_weight_g)

\* The candidate of the k-th iteration of the sweep of debug_main
DebugTask(c, k) ==
    LET t == NthTuple(KimiLists(c), k)
    IN  [m1 |-> t[1], m2 |-> t[2],
         z |-> <<Round(t[3], t[1]), Round(t[4], t[1]), Round(t[5], t[2]), Round(t[6], t[2])>>]

\* The six geometric and kinematic checks of a candidate in the order
\* teeth, wheelbase, motor_speed, output_torque, envelope, clearance, each
\* with whether it fails, in whole-number arithmetic (0.95 * 0.95 = 361/400)
DebugChecks(c, a) ==
    LET z == a.z
    IN  << <<"teeth", \E i \in 1..4 : z[i] < c.MIN_TEETH>>,
           <<"wheelbase", a.m1 * (z[1] + z[2]) <= 0 \/ a.m2 * (z[3] + z[4]) <= 0>>,
           <<"motor_speed", c.OUTPUT_SPEED * z[2] * z[4] > c.MAX_MOTOR_SPEED * z[1] * z[3]>>,
           <<"output_torque",
             c.MOTOR_TORQUE_LOWER[1] * z[2] * z[4] * 361
                < c.OUTPUT_TORQUE * c.MOTOR_TORQUE_LOWER[2] * z[1] * z[3] * 400>>,
           <<"envelope", z[2] * a.m1 > c.MOTOR_D \/ z[4] * a.m2 > c.MOTOR_D>>,
           <<"clearance", z[1] * a.m1 - z[3] * a.m2 < c.MIN_CLEARANCE>> >>

FailingChecks(checks) == {i \in 1..Len(checks) : checks[i][2]}

\* C3: every outcome of debug_main.evaluate_design names the first failing
\* check in the order teeth, wheelbase, motor_speed, output_torque,
\* envelope, clearance, and only a candidate passing these six reaches the
\* material stage, whose outcome is 'ok' with a design record or a material
\* reason with None; each candidate is counted under exactly one reason
C3_FirstFailingCheckIsReported ==
    prog = "debug" =>
       /\ \A r \in Reasons : fail_counts[r] >= 0
       /\ SumSeq([i \in 1..9 |->
                    fail_counts[<<"teeth", "wheelbase", "motor_speed", "output_torque",
                                  "envelope", "clearance", "material_not_found",
                                  "strength", "ok">>[i]]]) = completed
       /\ last.op = "evaluate_design" =>
             LET checks == DebugChecks(cfg, DebugTask(cfg, last.arg))
                 failing == FailingChecks(checks)
                 result == last.out[1]
                 reason == last.out[2]
             IN  /\ (reason = "ok") <=> (result # None)
                 /\ result # None => result.kind = "design"
                 /\ IF failing # {}
                    THEN \E i \in failing :
                            /\ \A j \in failing : i <= j
                            /\ reason = checks[i][1]
                    ELSE reason \in {"ok", "strength", "material_not_found"}

\* C3 (witness): a candidate that fails two of the checks has just been
\* reported under the earlier one
C3_TwoChecksFailOneReported ==
    /\ prog = "debug" /\ last.op = "evaluate_design"
    /\ LET checks == DebugChecks(cfg, DebugTask(cfg, last.arg))
       IN  \E i, j \in FailingChecks(checks) :
              i < j /\ i > 1 /\ last.out[2] = checks[i][1]

\* C4: GearOptimizer.optimize is never left by an exception, and when it
\* returns evaluate has been called once for each point of the product
C4_SweepRunsToCompletion ==
    prog = "optimizer" =>
       /\ pc # "raised"
       /\ pc = "done" => completed = total_count(cfg)

\* The root stress of gear i of a geometry: 2*(1000*T)*Y_F*0.7 / (b*m^2*z)
GearStress(g, i) == LewisStress(g.m[i], g.z[i], g.width[i], GearTorque(g, i))

WellFormedGeometry(g) == \A i \in 1..4 : g.z[i] >= 12 /\ g.m[i] > 0 /\ g.width[i] > 0

\* C5: for a geometry with all tooth counts >= 12 and positive modules and
\* face widths, check_material returns a result whose max_stress is the
\* greatest of the four gear stresses, allow_stress = sigma_f / safety_factor,
\* strength_ok iff max_stress <= allow_stress, suitable iff strength_ok and
\* sf_ratio_ok
C5_CheckMaterialReturnsResult ==
    (prog = "checker" /\ last.op = "check_material" /\ WellFormedGeometry(cfg.g)) =>
       /\ IsOk(last.out)
       /\ LET r == last.out.val
              material == cfg.db[DbIndex(cfg.db, last.arg)]
          IN  /\ \E i \in 1..4 : r.max_stress = GearStress(cfg.g, i)
              /\ \A i \in 1..4 : FLE(GearStress(cfg.g, i), r.max_stress)
              /\ r.allow_stress = Frac(material.sigma_f * 10, material.safety_factor)
              /\ r.strength_ok <=> FLE(r.max_stress, r.allow_stress)
              /\ r.suitable <=> (r.strength_ok /\ r.sf_ratio_ok)

\* Whether a material suits a geometry: every gear's stress within
\* sigma_f / safety_factor and the root-thickness ratio at least sf_min_ratio
Suits(material, g, pressure_angle) ==
    /\ \A i \in 1..4 : g.z[i] >= 12 /\ g.m[i] > 0 /\ g.width[i] > 0
    /\ \A i \in 1..4 :
          FLE(GearStress(g, i), Frac(material.sigma_f * 10, material.safety_factor))
    /\ material.sf_min_ratio * 100 <= sf_factor(pressure_angle)

\* The outcome (key, results) of an automatic selection over catalog db
\* names the first, in catalog order, of the suitable materials of least
\* density, and holds one result for every catalog key
PicksLightest(out, db, g, pressure_angle) ==
    /\ IsOk(out)
    /\ Len(out.val[2]) = Len(db)
    /\ \A i \in 1..Len(db) : HasKey(out.val[2], db[i].key)
    /\ \E i \in 1..Len(db) :
          /\ out.val[1] = db[i].key
          /\ Suits(db[i], g, pressure_angle)
          /\ \A j \in 1..Len(db) :
                Suits(db[j], g, pressure_angle) =>
                   \/ db[i].density < db[j].density
                   \/ db[i].density = db[j].density /\ i <= j

\* C6: whenever a catalog material is suitable, select_best_material in
\* 'auto' mode and kimi_proposal_speed.select_material_by_strength return a
\* suitable key of least density, ties resolved by catalog order, with one
\* result for every catalog key
C6_AutoSelectsLightestSuitable ==
    prog = "checker" =>
       /\ (/\ last.op = "select_best_material" /\ last.arg = "auto"
           /\ \E i \in 1..Len(cfg.db) : Suits(cfg.db[i], cfg.g, cfg.pressure_angle))
             => PicksLightest(last.out, cfg.db, cfg.g, cfg.pressure_angle)
       /\ (/\ last.op = "select_material_by_strength"
           /\ \E i \in 1..Len(cfg.db) : Suits(cfg.db[i], cfg.g, 20))
             => PicksLightest(last.out, cfg.db, cfg.g, 20)

\* The outcome (key, results) of an automatic selection is the fallback:
\* the key 'steel' with an entry of the results that is not suitable
FallsBackToSteel(out) ==
    /\ IsOk(out)
    /\ out.val[1] = "steel"
    /\ \E i \in 1..Len(out.val[2]) :
          out.val[2][i].material_key = "steel" /\ ~out.val[2][i].suitable

\* C7: when no material of the catalog is suitable, automatic selection
\* returns 'steel', the results hold an entry for 'steel', and that entry is
\* not suitable
C7_FallbackIsUnsuitableSteel ==
    prog = "checker" =>
       /\ (/\ last.op = "select_best_material" /\ last.arg = "auto"
           /\ \A i \in 1..Len(cfg.db) : ~Suits(cfg.db[i], cfg.g, cfg.pressure_angle))
             => FallsBackToSteel(last.out)
       /\ (/\ last.op = "select_material_by_strength"
           /\ \A i \in 1..Len(cfg.db) : ~Suits(cfg.db[i], cfg.g, 20))
             => FallsBackToSteel(last.out)

\* The material a gear is judged against under a material_config: the
\* catalog entry of the gear's key, 'steel' for a gear without a key and for
\* a key the catalog does not hold
OwnMaterial(db, material_config, i) ==
    LET key == IF i \in DOMAIN material_config THEN material_config[i] ELSE "steel"
    IN  IF key \in DbKeys(db) THEN db[DbIndex(db, key)] ELSE db[DbIndex(db, "steel")]

\* The root stress of gear i as the checker reports it: infinite for fewer
\* than 12 teeth or no face width
ReportedStress(g, i) ==
    IF g.z[i] < 12 \/ g.width[i] <= 0 \/ g.m[i] <= 0 THEN FInf ELSE GearStress(g, i)

\* Gear i of geometry g passes against a material: its own stress is within
\* sigma_f / safety_factor and sf_factor >= sf_min_ratio
GearPasses(material, g, i, pressure_angle) ==
    /\ FLE(ReportedStress(g, i), Frac(material.sigma_f * 10, material.safety_factor))
    /\ material.sf_min_ratio * 100 <= sf_factor(pressure_angle)

MixedReturned ==
    prog = "checker" /\ last.op = "check_mixed_materials" /\ IsOk(last.out)

\* C8: a result of check_mixed_materials is suitable iff each of the four
\* gears passes, with its own stress, against the material assigned to that
\* gear
C8_SuitableIffEachGearPassesOwnMaterial ==
    MixedReturned =>
       (last.out.val.suitable <=>
           \A i \in 1..4 :
              GearPasses(OwnMaterial(cfg.db, last.arg, i), cfg.g, i, cfg.pressure_angle))

\* C8 (witness): a returned result is unsuitable because one gear fails
\* against its own material although it would pass against the material of
\* another gear, and every other gear passes
C8_OneGearFailsOwnMaterialOnly ==
    /\ MixedReturned
    /\ ~last.out.val.suitable
    /\ \E i \in 1..4 :
          /\ ~GearPasses(OwnMaterial(cfg.db, last.arg, i), cfg.g, i, cfg.pressure_angle)
          /\ \E j \in 1..4 :
                GearPasses(OwnMaterial(cfg.db, last.arg, j), cfg.g, i, cfg.pressure_angle)
          /\ \A j \in 1..4 \ {i} :
                GearPasses(OwnMaterial(cfg.db, last.arg, j), cfg.g, j, cfg.pressure_angle)

\* max_stress is the greatest of the four gear stresses and allow_stress is
\* sigma_f / safety_factor of the material of a gear with that stress
ReportsMostStressedGear(r, db, material_config, g) ==
    /\ \A i \in 1..4 : FLE(ReportedStress(g, i), r.max_stress)
    /\ \E i \in 1..4 :
          /\ r.max_stress = ReportedStress(g, i)
          /\ r.allow_stress =
                Frac(OwnMaterial(db, material_config, i).sigma_f * 10,
                     OwnMaterial(db, material_config, i).safety_factor)

\* allowable stress over stress of gear i against its own material
GearMargin(db, material_config, g, i) ==
    FDiv(Frac(OwnMaterial(db, material_config, i).sigma_f * 10,
              OwnMaterial(db, material_config, i).safety_factor),
         ReportedStress(g, i))

\* C9 (as stated): in a result of check_mixed_materials, max_stress and
\* allow_stress are those of the most stressed gear and safety_margin equals
\* allow_stress / max_stress
C9_MarginIsAllowOverMax ==
    MixedReturned =>
       /\ ReportsMostStressedGear(last.out.val, cfg.db, last.arg, cfg.g)
       /\ last.out.val.safety_margin = FDiv(last.out.val.allow_stress, last.out.val.max_stress)

\* C9 (amended): in a result of check_mixed_materials, max_stress and
\* allow_stress are those of the most stressed gear, and safety_margin is the
\* least, over the four gears, of the gear's own allowable stress over its
\* own stress; it equals allow_stress / max_stress when the most stressed
\* gear is also the gear of least margin, and is below it otherwise
C9_MarginIsLeastGearMargin ==
    MixedReturned =>
       /\ ReportsMostStressedGear(last.out.val, cfg.db, last.arg, cfg.g)
       /\ \E i \in 1..4 :
             last.out.val.safety_margin = GearMargin(cfg.db, last.arg, cfg.g, i)
       /\ \A i \in 1..4 :
             FLE(last.out.val.safety_margin, GearMargin(cfg.db, last.arg, cfg.g, i))
       /\ FLE(last.out.val.safety_margin,
              FDiv(last.out.val.allow_stress, last.out.val.max_stress))

\* C9 (witness): a returned result whose gear of least margin is not the
\* most stressed gear, so that safety_margin is below allow_stress / max_stress
C9_LeastMarginGearIsNotMostStressed ==
    /\ MixedReturned
    /\ FLT(last.out.val.safety_margin,
           FDiv(last.out.val.allow_stress, last.out.val.max_stress))

\* The configured minimum tooth count of the running program
ConfiguredMinTeeth == IF prog = "optimizer" THEN cfg.min_teeth ELSE cfg.MIN_TEETH

\* C10: every design accepted by GearOptimizer.evaluate,
\* kimi_proposal_single.evaluate_design or
\* kimi_proposal_speed.evaluate_single_design has all four tooth counts at
\* least the configured minimum tooth count
C10_AcceptedTeethAtLeastConfigured ==
    (/\ prog \in {"optimizer", "single", "speed"}
     /\ last.op \in {"evaluate", "evaluate_design", "evaluate_single_design"}
     /\ IsOk(last.out) /\ last.out.val.kind = "design") =>
       \A i \in 1..4 : last.out.val.z[i] >= ConfiguredMinTeeth

\* The tooth counts of the candidate of the k-th iteration of optimize
CandidateTeeth(c, k) ==
    LET Teeth(t) == <<Round(t[3], t[1]), Round(t[4], t[1]), Round(t[5], t[2]), Round(t[6], t[2])>>
    IN  Teeth(NthTuple(SearchLists(c), k))

\* output_speed * (z2/z1) * (z4/z3) <= max_motor_speed and
\* motor_torque * (z2/z1) * (z4/z3) * 0.95^2 >= output_torque in whole numbers
WithinSpeedLimit(output_speed, z, max_motor_speed) ==
    output_speed * z[2] * z[4] <= max_motor_speed * z[1] * z[3]

DeliversTorque(motor_torque, z, output_torque) ==
    motor_torque[1] * z[2] * z[4] * 361 >= output_torque * motor_torque[2] * z[1] * z[3] * 400

\* The design just accepted by one of the three evaluators keeps both limits
\* and reports the output torque motor_torque * ratio * 0.95^2
AcceptedWithinLimits ==
    /\ (prog = "optimizer" /\ last.op = "evaluate" /\ Accepted(last.out)) =>
          /\ WithinSpeedLimit(cfg.output_speed, last.out.val.z, cfg.max_motor_speed)
          /\ DeliversTorque(cfg.motor_torque, last.out.val.z, cfg.output_torque)
          /\ last.out.val.output_torque
                = Frac(cfg.motor_torque[1] * last.out.val.z[2] * last.out.val.z[4] * 361,
                       cfg.motor_torque[2] * last.out.val.z[1] * last.out.val.z[3] * 400)
    /\ (prog = "single" /\ last.op = "evaluate_design" /\ Accepted(last.out)) =>
          /\ WithinSpeedLimit(cfg.OUTPUT_SPEED, last.out.val.z, cfg.MAX_MOTOR_SPEED)
          /\ DeliversTorque(cfg.MOTOR_TORQUE_LOWER, last.out.val.z, cfg.OUTPUT_TORQUE)
          /\ last.out.val.output_torque
                = Frac(cfg.MOTOR_TORQUE_LOWER[1] * last.out.val.z[2] * last.out.val.z[4] * 361,
                       cfg.MOTOR_TORQUE_LOWER[2] * last.out.val.z[1] * last.out.val.z[3] * 400)
    /\ (prog = "speed" /\ last.op = "evaluate_single_design" /\ Accepted(last.out)) =>
          /\ WithinSpeedLimit(cfg.output_speed, last.out.val.z, cfg.max_motor_speed)
          /\ DeliversTorque(cfg.motor_torque, last.out.val.z, cfg.output_torque)
          /\ last.out.val.output_torque
                = Frac(cfg.motor_torque[1] * last.out.val.z[2] * last.out.val.z[4] * 361,
                       cfg.motor_torque[2] * last.out.val.z[1] * last.out.val.z[3] * 400)

\* The candidate GearOptimizer.evaluate has just dealt with is exactly on
\* the motor-speed limit, and the same call under a limit one rpm higher
\* accepts it: the candidate passes every other check of evaluate
OnSpeedLimitOtherwiseAccepted ==
    /\ prog = "optimizer" /\ last.op = "evaluate" /\ IsOk(last.out)
    /\ Min4(CandidateTeeth(cfg, last.arg)) >= cfg.min_teeth
    /\ cfg.output_speed * CandidateTeeth(cfg, last.arg)[2] * CandidateTeeth(cfg, last.arg)[4]
          = cfg.max_motor_speed * CandidateTeeth(cfg, last.arg)[1]
                * CandidateTeeth(cfg, last.arg)[3]
    /\ Accepted(EvaluateAt([cfg EXCEPT !.max_motor_speed = @ + 1], hashseed, last.arg))

\* C11: every accepted design has output_speed * ratio <= the maximum motor
\* speed and a reported output torque motor_torque * ratio * 0.95^2 that is
\* >= the required output torque, with ratio = (z2/z1) * (z4/z3) of its tooth
\* counts; both comparisons are non-strict, so a candidate exactly on the
\* motor-speed limit that passes the other checks is accepted
C11_WithinLimitsAndOnLimitAccepted ==
    /\ AcceptedWithinLimits
    /\ OnSpeedLimitOtherwiseAccepted => Accepted(last.out)

\* C12: every design accepted by GearOptimizer.evaluate,
\* kimi_proposal_single.evaluate_design or
\* kimi_proposal_speed.evaluate_single_design has max(D2, D4) <= the motor
\* diameter and D1 - D3 >= the configured minimum clearance
C12_AcceptedKeepsEnvelopeAndConfiguredClearance ==
    /\ (prog = "optimizer" /\ last.op = "evaluate" /\ Accepted(last.out)) =>
          /\ Max2(last.out.val.d[2], last.out.val.d[4]) <= cfg.motor_diameter
          /\ last.out.val.d[1] - last.out.val.d[3] >= cfg.min_clearance
    /\ (prog = "single" /\ last.op = "evaluate_design" /\ Accepted(last.out)) =>
          /\ Max2(last.out.val.D[2], last.out.val.D[4]) <= cfg.MOTOR_D
          /\ last.out.val.D[1] - last.out.val.D[3] >= cfg.MIN_CLEARANCE
    /\ (prog = "speed" /\ last.op = "evaluate_single_design" /\ Accepted(last.out)) =>
          /\ Max2(last.out.val.D[2], last.out.val.D[4]) <= cfg.motor_D
          /\ last.out.val.D[1] - last.out.val.D[3] >= cfg.MIN_CLEARANCE

\* Whether each task of the speed sweep is accepted, and with which metric
SpeedScores ==
    [c \in SpeedConfigs |->
        [k \in 0..(ProductLen(SpeedLists(c)) - 1) |->
            LET Scored(o) ==
                    IF Accepted(o) THEN <<"accepted", o.val.metric>> ELSE <<"rejected">>
            IN  Scored(SpeedEvaluateAt(c, k))]]

\* C13: when optimize_gear_design returns, whatever the order in which
\* imap_unordered delivered the results, the best design and the best metric
\* are those of a sequential pass over the task list in enumeration order:
\* the first accepted task of least metric, or None when no task is accepted
C13_BestIsThatOfSequentialPass ==
    (prog = "speed" /\ pc = "done") =>
        LET first == FirstLeast(SpeedScores[cfg], ProductLen(SpeedLists(cfg)))
        IN  IF first < 0 THEN best = None /\ best_metric = FInf
            ELSE /\ best = SpeedEvaluateAt(cfg, first).val
                 /\ best_metric = SpeedScores[cfg][first][2]

\* The tooth counts the candidates of a grid can have: round(d / m) for the
\* diameters d of a stage and the module options m of that stage
GridTeeth(m1_options, m2_options, stage1, stage2) ==
    { Round(stage1[i], m1_options[j]) : i \in 1..Len(stage1), j \in 1..Len(m1_options) }
        \cup { Round(stage2[i], m2_options[j]) : i \in 1..Len(stage2), j \in 1..Len(m2_options) }

\* The configured minimum tooth count exceeds every tooth count of the grid
TeethOutOfReach ==
    \/ /\ prog = "optimizer"
       /\ \A j \in 1..Len(cfg.m1_options) : cfg.m1_options[j] > 0
       /\ \A j \in 1..Len(cfg.m2_options) : cfg.m2_options[j] > 0
       /\ \A z \in GridTeeth(cfg.m1_options, cfg.m2_options,
                             SearchLists(cfg)[3] \o SearchLists(cfg)[4],
                             SearchLists(cfg)[5] \o SearchLists(cfg)[6]) : z < cfg.min_teeth
    \/ /\ prog = "debug"
       /\ \A z \in GridTeeth(cfg.M1_OPTIONS, cfg.M2_OPTIONS,
                             KimiLists(cfg)[3] \o KimiLists(cfg)[4],
                             KimiLists(cfg)[5] \o KimiLists(cfg)[6]) : z < cfg.MIN_TEETH

\* C14: when the minimum tooth count exceeds every tooth count of the grid,
\* every point is rejected, in debug_main with reason 'teeth' (the 'teeth'
\* tally is the number of points visited and every other tally is 0), no
\* best candidate is kept, valid_count stays 0, no exception leaves the
\* sweep, and the sweep ends only after all points were visited
C14_UnreachableMinTeethRejectsEveryPoint ==
    TeethOutOfReach =>
        /\ best = None /\ valid_count = 0 /\ pc # "raised"
        /\ prog = "optimizer" =>
              /\ last.op = "evaluate" => last.out = Ok(None)
              /\ pc = "done" => completed = total_count(cfg)
        /\ prog = "debug" =>
              /\ last.op = "evaluate_design" => last.out = <<None, "teeth">>
              /\ fail_counts = [r \in Reasons |-> IF r = "teeth" THEN completed ELSE 0]
              /\ pc = "done" => completed = total_tasks(cfg)

\* C14 (witness): the sweep of debug_main has ended under such a minimum
\* tooth count, with every point of the grid tallied
C14_SweepEndedWithNothingFeasible ==
    /\ prog = "debug" /\ pc = "done" /\ TeethOutOfReach
    /\ fail_counts["teeth"] = total_tasks(cfg) /\ total_tasks(cfg) > 0

\* A GearConfig with an empty module or width-factor option list, a
\* diameter range whose minimum exceeds its maximum, or a module <= 0
Malformed(c) ==
    \/ c.m1_options = <<>> \/ c.m2_options = <<>>
    \/ c.width_factors1 = <<>> \/ c.width_factors2 = <<>>
    \/ c.d1_range[1] > c.d1_range[2] \/ c.d2_range[1] > c.d2_range[2]
    \/ c.d3_range[1] > c.d3_range[2] \/ c.d4_range[1] > c.d4_range[2]
    \/ \E j \in 1..Len(c.m1_options) : c.m1_options[j] <= 0
    \/ \E j \in 1..Len(c.m2_options) : c.m2_options[j] <= 0

\* C15: GearOptimizer.optimize started with a malformed configuration
\* evaluates no candidate and does not return a (best_result, valid_count,
\* total_count) result
C15_MalformedConfigurationFailsFast ==
    (prog = "optimizer" /\ Malformed(cfg)) => (completed = 0 /\ pc # "done")

\* C16: with a fixed MATERIAL_MODE whose key is not in the material
\* catalog, evaluate_single_design returns None for every candidate and
\* raises nothing
C16_MissingFixedMaterialIsRejection ==
    (/\ prog = "speed" /\ last.op = "evaluate_single_design"
     /\ cfg.MATERIAL_MODE # "auto"
     /\ cfg.MATERIAL_MODE \notin DbKeys(cfg.MATERIAL_DB)) => last.out = Ok(None)

\* The gear of the call has fewer than 12 teeth, or a face width or a
\* module that is not positive
BelowStressDomain(c) == c.z < 12 \/ c.width <= 0 \/ c.m <= 0

\* C17: for a gear with fewer than 12 teeth, a width <= 0 or a module <= 0,
\* both calculate_bending_stress functions return the stress +infinity and
\* the form factor 0, and select_material_by_strength over a 4-gear geometry
\* that holds such a gear returns, for every material of the catalog,
\* strength_ok = false and suitable = false; no call raises
C17_SentinelStressAndNothingSuitable ==
    (prog = "stress" /\ last.op # "none" /\ BelowStressDomain(cfg)) =>
        /\ IsOk(last.out)
        /\ last.op \in {"StrengthChecker.calculate_bending_stress", "calculate_bending_stress"} =>
              last.out.val[1] = FInf /\ last.out.val[2] = FZero
        /\ last.op = "select_material_by_strength" =>
              /\ Len(last.out.val[2]) = Len(cfg.db)
              /\ \A i \in 1..Len(last.out.val[2]) :
                    /\ ~last.out.val[2][i].strength_ok
                    /\ ~last.out.val[2][i].suitable

C19_TotalSizeIsSumOfRadii ==
    /\ (prog = "optimizer" /\ last.op = "evaluate" /\ Accepted(last.out)) =>
          /\ last.out.val.d = <<last.out.val.z[1] * last.out.val.m1,
                                last.out.val.z[2] * last.out.val.m1,
                                last.out.val.z[3] * last.out.val.m2,
                                last.out.val.z[4] * last.out.val.m2>>
          /\ 2 * last.out.val.total_size[1]
                = last.out.val.total_size[2]
                    * (cfg.motor_diameter + last.out.val.d[1] + last.out.val.d[2]
                          + last.out.val.d[3] + last.out.val.d[4])
    /\ (prog = "single" /\ last.op = "evaluate_design" /\ Accepted(last.out)) =>
          2 * last.out.val.total_size[1]
             = last.out.val.total_size[2]
                 * (cfg.MOTOR_D + last.out.val.D[1] + last.out.val.D[2]
                       + last.out.val.D[3] + last.out.val.D[4])
    /\ (prog = "speed" /\ last.op = "evaluate_single_design" /\ Accepted(last.out)) =>
          2 * last.out.val.total_size[1]
             = last.out.val.total_size[2]
                 * (cfg.motor_D + last.out.val.D[1] + last.out.val.D[2]
                       + last.out.val.D[3] + last.out.val.D[4])

\* The tooth-count floors the candidates are compared under
TeethFloors == {12, 17, 18, 1000}

\* What GearOptimizer.evaluate returns for the candidate it has just dealt
\* with when only min_teeth is changed to the floor
UnderFloor(floor) == EvaluateAt([cfg EXCEPT !.min_teeth = floor], hashseed, last.arg)

\* C20: a candidate that GearOptimizer.evaluate accepts under a minimum
\* tooth count min_teeth' >= min_teeth, everything else being the same, is
\* accepted under min_teeth too, with the same design record
C20_HigherFloorAcceptsNoMore ==
    (prog = "optimizer" /\ last.op = "evaluate") =>
        \A floor \in TeethFloors :
            (floor >= cfg.min_teeth /\ Accepted(UnderFloor(floor))) =>
                (Accepted(last.out) /\ last.out.val = UnderFloor(floor).val)

\* C20 (witness): a candidate has been accepted under the floor 12 that is
\* accepted under the floor 17 as well, and rejected under the floor 18
C20_AcceptedUnderTwoFloors ==
    /\ prog = "optimizer" /\ last.op = "evaluate" /\ cfg.min_teeth = 12
    /\ Accepted(last.out)
    /\ Accepted(UnderFloor(17))
    /\ ~Accepted(UnderFloor(18))

\* What GearOptimizer.evaluate returns for the candidate it has just dealt
\* with in an interpreter run with the given string-hash seed
InRun(seed) == EvaluateAt(cfg, seed, last.arg)

\* C21: GearOptimizer.evaluate is repeatable: the candidate just evaluated
\* gets the same outcome, with the same value in every result field
\* (material_name, stress_details and gear_materials included), when it is
\* evaluated again, in this run or in any other run
C21_SameOutcomeInEveryRun ==
    (prog = "optimizer" /\ last.op = "evaluate") =>
        \A seed \in {0, 1} : InRun(seed) = last.out

\* C22: select_best_material is idempotent: the call returns a key with a
\* result for every catalog key, and a second call with the same inputs on
\* the same checker and catalog returns the identical key and results
C22_SecondSelectionReturnsTheSame ==
    (prog = "checker" /\ last.op = "select_best_material") =>
       /\ IsOk(last.out)
       /\ \A i \in 1..Len(cfg.db) : HasKey(last.out.val[2], cfg.db[i].key)
       /\ select_best_material(cfg.pressure_angle, cfg.db, cfg.g, last.arg) = last.out

\* The nominal diameters D and D + shift, divided by the stage modules
\* <<m1, m1, m2, m2>>, round to the same four tooth counts
SameTeeth(m1, m2, D, shift) ==
    \A i \in 1..4 :
        LET m == IF i <= 2 THEN m1 ELSE m2
        IN  m > 0 /\ Round(D[i] + shift[i], m) = Round(D[i], m)

\* A design record whose four pitch diameters are tooth count x stage module
PitchFromTeeth(z, d, m1, m2) == d = <<z[1] * m1, z[2] * m1, z[3] * m2, z[4] * m2>>

\* C23: the outcome of GearOptimizer.evaluate and of
\* kimi_proposal_speed.evaluate_single_design depends on the nominal
\* diameters only through the rounded tooth counts: an accepted design
\* reports pitch diameters = tooth count x stage module, and a candidate
\* with the same modules and width factors whose nominal diameters (each
\* shifted by -1, 0 or 1 mm) round to the same tooth counts gets the same
\* outcome
C23_OutcomeDependsOnRoundedTeethOnly ==
    /\ (prog = "optimizer" /\ last.op = "evaluate") =>
          LET t == NthTuple(SearchLists(cfg), last.arg)
          IN  /\ Accepted(last.out) =>
                    PitchFromTeeth(last.out.val.z, last.out.val.d, t[1], t[2])
              /\ \A shift \in [1..4 -> {-1, 0, 1}] :
                    SameTeeth(t[1], t[2], <<t[3], t[4], t[5], t[6]>>, shift) =>
                       evaluate(cfg, hashseed, t[1], t[2], t[3] + shift[1], t[4] + shift[2],
                                t[5] + shift[3], t[6] + shift[4], t[7], t[8]) = last.out
    /\ (prog = "speed" /\ last.op = "evaluate_single_design") =>
          LET t == NthTuple(SpeedLists(cfg), last.arg)
          IN  /\ Accepted(last.out) =>
                    PitchFromTeeth(last.out.val.z, last.out.val.D, t[1], t[2])
              /\ \A shift \in [1..4 -> {-1, 0, 1}] :
                    SameTeeth(t[1], t[2], <<t[5], t[6], t[7], t[8]>>, shift) =>
                       evaluate_single_design(cfg, t[1], t[2], t[3], t[4], t[5] + shift[1],
                                              t[6] + shift[2], t[7] + shift[3],
                                              t[8] + shift[4]) = last.out

\* C23 (witness): GearOptimizer.evaluate has accepted a candidate of nominal
\* diameter d1 = 36 which is also the next candidate of the sweep with
\* d1 = 35 and d2 one millimetre greater, rounded to the same tooth counts
C23_AcceptedWithSharedTeeth ==
    /\ prog = "optimizer" /\ last.op = "evaluate" /\ Accepted(last.out)
    /\ LET t == NthTuple(SearchLists(cfg), last.arg)
       IN  /\ t[3] = 36 /\ t[4] = 72
           /\ SameTeeth(t[1], t[2], <<t[3], t[4], t[5], t[6]>>, <<-1, 1, 0, 0>>)
           /\ last.out.val.z = <<18, 36, 17, 60>>

\* In kimi_proposal_speed with a fixed MATERIAL_MODE, an accepted design
\* records that material, checked suitable
FixedModeKeepsKey ==
    (/\ prog = "speed" /\ last.op = "evaluate_single_design"
     /\ cfg.MATERIAL_MODE # "auto" /\ Accepted(last.out)) =>
       /\ last.out.val.material_key = cfg.MATERIAL_MODE
       /\ last.out.val.strength_check_pass
       /\ last.out.val.selected_material_result.suitable

\* C24: select_best_material with mode = key k returns k together with a
\* check result for every catalog key, whether k is suitable or not; and
\* in kimi_proposal_speed with MATERIAL_MODE = k every accepted design has
\* material_key = k with that material's check suitable
C24_FixedKeyIsReturnedAndRecorded ==
    /\ (prog = "checker" /\ last.op = "select_best_material" /\ last.arg # "auto") =>
          /\ IsOk(last.out)
          /\ last.out.val[1] = last.arg
          /\ \A i \in 1..Len(cfg.db) : HasKey(last.out.val[2], cfg.db[i].key)
    /\ FixedModeKeepsKey

\* The root-thickness gate as a function of pressure angle and material
\* only: sf_factor >= sf_min_ratio
RootGate(material, pressure_angle) ==
    material.sf_min_ratio * 100 <= sf_factor(pressure_angle)

\* C25: the root-thickness gate does not depend on the stage modules:
\* sf_ratio_ok of check_material and of select_material_by_strength, and
\* the per-gear sf_ok of check_mixed_materials (which decides suitable when
\* every gear passes the stress comparison), are true iff
\* sf_factor(pressure angle) >= the material's sf_min_ratio
C25_RootGateIsModuleIndependent ==
    prog = "checker" =>
       /\ last.op = "check_material" =>
             /\ IsOk(last.out)
             /\ last.out.val.sf_ratio_ok
                   <=> RootGate(cfg.db[DbIndex(cfg.db, last.arg)], cfg.pressure_angle)
       /\ (last.op = "select_material_by_strength" /\ IsOk(last.out)) =>
             \A i \in 1..Len(cfg.db) :
                last.out.val[2][i].sf_ratio_ok <=> RootGate(cfg.db[i], 20)
       /\ (/\ MixedReturned
           /\ \A i \in 1..4 :
                 FLE(ReportedStress(cfg.g, i),
                     AllowStress(OwnMaterial(cfg.db, last.arg, i)))) =>
             (last.out.val.suitable
                 <=> \A i \in 1..4 :
                        RootGate(OwnMaterial(cfg.db, last.arg, i), cfg.pressure_angle))

\* Both center distances of the gear pairs with tooth counts z are positive
PositiveCenterDistances(m1, m2, z) ==
    z[1] * m1 + z[2] * m1 > 0 /\ z[3] * m2 + z[4] * m2 > 0

\* C26: with positive modules and a minimum tooth count >= 1, a candidate
\* that passes the tooth-count check has both center distances strictly
\* positive: debug_main.evaluate_design never returns the reason
\* 'wheelbase' and its tally stays 0, and every candidate that
\* kimi_proposal_speed.evaluate_single_design lets past its teeth check
\* has positive center distances, which an accepted design records
C26_WheelbaseRejectionUnreachable ==
    /\ (/\ prog = "debug" /\ cfg.MIN_TEETH >= 1
        /\ \A i \in 1..Len(cfg.M1_OPTIONS) : cfg.M1_OPTIONS[i] > 0
        /\ \A i \in 1..Len(cfg.M2_OPTIONS) : cfg.M2_OPTIONS[i] > 0) =>
          /\ fail_counts["wheelbase"] = 0
          /\ last.op = "evaluate_design" =>
                LET t == NthTuple(KimiLists(cfg), last.arg)
                IN  /\ last.out[2] # "wheelbase"
                    /\ last.out[2] # "teeth" =>
                          PositiveCenterDistances(
                              t[1], t[2], <<Round(t[3], t[1]), Round(t[4], t[1]),
                                            Round(t[5], t[2]), Round(t[6], t[2])>>)
    /\ (/\ prog = "speed" /\ last.op = "evaluate_single_design"
        /\ \A i \in 1..Len(cfg.m1_options) : cfg.m1_options[i] > 0
        /\ \A i \in 1..Len(cfg.m2_options) : cfg.m2_options[i] > 0) =>
          LET t == NthTuple(SpeedLists(cfg), last.arg)
              z == <<Round(t[5], t[1]), Round(t[6], t[1]), Round(t[7], t[2]), Round(t[8], t[2])>>
          IN  /\ (\A i \in 1..4 : z[i] >= 17) => PositiveCenterDistances(t[1], t[2], z)
              /\ Accepted(last.out) =>
                    /\ FLT(FZero, last.out.val.wheelbase1)
                    /\ FLT(FZero, last.out.val.wheelbase2)

\* C26 (witness): the debug sweep has ended with candidates that passed
\* the tooth-count check, rejected for other reasons or accepted, and
\* none counted under 'wheelbase'
C26_SweepEndedWithoutWheelbaseRejection ==
    /\ prog = "debug" /\ pc = "done" /\ cfg.MIN_TEETH = 12
    /\ fail_counts["wheelbase"] = 0
    /\ fail_counts["teeth"] > 0 /\ fail_counts["teeth"] < completed
    /\ fail_counts["envelope"] > 0 /\ fail_counts["ok"] > 0

\* The geometry the strength check of an accepted design of
\* kimi_proposal_single (width factors from the configuration) or of
\* kimi_proposal_speed (widths recorded in the design) was made on
DesignGeometry(r, width1, width2, motor_torque) ==
    Geometry(r.m1, r.m2, r.z[1], r.z[2], r.z[3], r.z[4], width1, width2, motor_torque,
             FMul(FMul(motor_torque, Frac(r.z[2], r.z[1])), Frac(95, 100)))

\* key names a material of the catalog that suits geometry g, and no
\* suitable material of the catalog has a lower density
LightestSuitable(key, db, g) ==
    \E i \in 1..Len(db) :
       /\ db[i].key = key
       /\ Suits(db[i], g, 20)
       /\ \A j \in 1..Len(db) : Suits(db[j], g, 20) => db[i].density <= db[j].density

\* The material recorded in the design the sweep has just accepted in
\* automatic mode, with the geometry of that design
AutoRecorded ==
    IF prog = "single"
    THEN <<last.out.val.material,
           DesignGeometry(last.out.val, cfg.WIDTH_FACTOR1 * last.out.val.m1,
                          cfg.WIDTH_FACTOR2 * last.out.val.m2, cfg.MOTOR_TORQUE_LOWER)>>
    ELSE <<last.out.val.material_key,
           DesignGeometry(last.out.val, last.out.val.width1, last.out.val.width2,
                          cfg.motor_torque)>>

\* A design has just been accepted in automatic material mode by
\* kimi_proposal_single.evaluate_design or by
\* kimi_proposal_speed.evaluate_single_design
AcceptedInAutoMode ==
    /\ prog \in {"single", "speed"}
    /\ cfg.MATERIAL_MODE = "auto"
    /\ last.op \in {"evaluate_design", "evaluate_single_design"}
    /\ Accepted(last.out)

UniformMaterial == \A i \in 1..4 : cfg.material[i] = cfg.material[1]

\* C28: when material_z1..z4 are the same key k, GearOptimizer.evaluate
\* returns, and a design it accepts is qualified against material k:
\* material = k, material_name and allow_stress are those of k, and
\* weight_g uses the density of k
C28_UniformKeyIsHonoured ==
    (prog = "optimizer" /\ last.op = "evaluate" /\ UniformMaterial) =>
       /\ IsOk(last.out)
       /\ Accepted(last.out) =>
             LET k == DEFAULT_MATERIALS[DbIndex(DEFAULT_MATERIALS, cfg.material[1])]
                 r == last.out.val
             IN  /\ r.material = k.key
                 /\ r.material_name = <<k.name>>
                 /\ r.allow_stress = AllowStress(k)
                 /\ r.weight_g = <<Volume8(r.d, r.width_factor1 * r.m1,
                                           r.width_factor2 * r.m2) * k.density, 1>>

\* The assignment leaves a gear without a key or gives it a key the catalog
\* does not hold
HasUnknownKey(db, material_config) ==
    \E i \in 1..4 : i \notin DOMAIN material_config \/ material_config[i] \notin DbKeys(db)

\* C29: over a catalog that holds 'steel', check_mixed_materials called
\* with an assignment in which a gear has no key or an unknown key returns
\* a result without raising, that gear being judged against 'steel',
\* whichever gear carries the greatest stress
C29_UnknownKeyFallsBackToSteel ==
    (/\ prog = "checker" /\ last.op = "check_mixed_materials"
     /\ "steel" \in DbKeys(cfg.db)
     /\ HasUnknownKey(cfg.db, last.arg)) =>
       /\ IsOk(last.out)
       /\ last.out.val.suitable <=>
             \A i \in 1..4 :
                GearPasses(OwnMaterial(cfg.db, last.arg, i), cfg.g, i, cfg.pressure_angle)

\* A design has just been accepted in automatic mode over the built-in
\* four-material catalog
AcceptedOverBuiltInCatalog == AcceptedInAutoMode /\ cfg.MATERIAL_DB = MATERIAL_DB

\* C30: with the built-in catalog of kimi_proposal_single /
\* kimi_proposal_speed at 20 degrees the root-thickness gate fails for
\* peek, pom and nylon whatever the geometry (in select_material_by_strength
\* and in select_material no result for them is suitable), and every design
\* accepted in automatic mode has material 'steel'
C30_BuiltInCatalogAcceptsSteelOnly ==
    /\ AcceptedOverBuiltInCatalog => AutoRecorded[1] = "steel"
    /\ (/\ prog = "checker" /\ cfg.db = MATERIAL_DB
        /\ last.op \in {"select_material_by_strength", "select_material"}
        /\ IsOk(last.out)) =>
          \A i \in 1..Len(MATERIAL_DB) :
             MATERIAL_DB[i].key \in {"peek", "pom", "nylon"} =>
                /\ ~last.out.val[2][i].suitable
                /\ last.op = "select_material_by_strength" => ~last.out.val[2][i].sf_ratio_ok

\* C30 (witness): a design has been accepted with 'steel' over the built-in
\* catalog whose greatest root stress is within the allowable stress of
\* peek: the root-thickness gate alone keeps peek out
C30_SteelWherePeekIsStrongEnough ==
    /\ AcceptedOverBuiltInCatalog
    /\ prog = "speed"
    /\ AutoRecorded[1] = "steel"
    /\ FLE(last.out.val.max_bending_stress, AllowStress(MATERIAL_DB[2]))

====
